---------------------------- MODULE Spec2Model ----------------------------
(***************************************************************************)
(* A model of the Mermaid validation-and-correction engine of uml_gpt:     *)
(*   app/utils/mermaid_validator.py   MermaidValidator, MermaidCorrector   *)
(*   app/services/diagram_service.py  DiagramGenerator, GroqDiagramGenerator*)
(*   app/api/routes/diagrams.py       query                                *)
(*   app/api/routes/chat.py           start_chat, send_message             *)
(*                                                                         *)
(* Diagram texts are TLA+ strings; the validator's regular expressions are *)
(* kept as expressions and matched by a small matcher, so that validity is *)
(* computed from the characters of a text as the code computes it.         *)
(***************************************************************************)
EXTENDS Integers, Sequences, FiniteSets, TLC

(***************************************************************************)
(* Strings.                                                                *)
(***************************************************************************)

\* The i-th character of s, as a one-character string.
Char(s, i) == SubSeq(s, i, i)

\* Python's \s and the characters str.strip() removes (ASCII part).
Whitespace == {" ", "\t", "\n", "\r", "\f"}

\* Python's \d (ASCII part).
Digits == {"0", "1", "2", "3", "4", "5", "6", "7", "8", "9"}

\* Python's \w (ASCII part).
WordChars ==
  Digits \cup {"_"} \cup
  {"a", "b", "c", "d", "e", "f", "g", "h", "i", "j", "k", "l", "m",
   "n", "o", "p", "q", "r", "s", "t", "u", "v", "w", "x", "y", "z"} \cup
  {"A", "B", "C", "D", "E", "F", "G", "H", "I", "J", "K", "L", "M",
   "N", "O", "P", "Q", "R", "S", "T", "U", "V", "W", "X", "Y", "Z"}

\* The least element of a non-empty set of integers.
Min(set) == CHOOSE m \in set : \A n \in set : m <= n

\* The greatest element of a non-empty set of integers.
Max(set) == CHOOSE m \in set : \A n \in set : m >= n

\* str.strip(chars): s from its first to its last character not in chars.
StripChars(s, chars) ==
  LET keep == { i \in 1 .. Len(s) : Char(s, i) \notin chars }
  IN  IF keep = {} THEN "" ELSE SubSeq(s, Min(keep), Max(keep))

\* str.strip()
Strip(s) == StripChars(s, Whitespace)

\* str.find(sub, start) for positions counted from 1; 0 when there is none.
Find(s, sub, start) ==
  LET at == { i \in start .. (Len(s) - Len(sub) + 1) :
                SubSeq(s, i, i + Len(sub) - 1) = sub }
  IN  IF at = {} THEN 0 ELSE Min(at)

RECURSIVE SplitFrom(_, _)
\* The pieces of s from position start on, cut at every "\n".
SplitFrom(s, start) ==
  LET nl == Find(s, "\n", start)
  IN  IF nl = 0 THEN <<SubSeq(s, start, Len(s))>>
      ELSE <<SubSeq(s, start, nl - 1)>> \o SplitFrom(s, nl + 1)

\* str.split('\n')
SplitLines(s) == SplitFrom(s, 1)

RECURSIVE StrippedNonBlank(_)
\* [line.strip() for line in raw if line.strip()]
StrippedNonBlank(raw) ==
  IF raw = <<>> THEN <<>>
  ELSE LET line == Strip(Head(raw))
       IN  (IF line # "" THEN <<line>> ELSE <<>>) \o StrippedNonBlank(Tail(raw))

RECURSIVE ReplaceAll(_, _, _)
\* str.replace(old, new), old not empty.
ReplaceAll(s, old, new) ==
  LET at == Find(s, old, 1)
  IN  IF at = 0 THEN s
      ELSE SubSeq(s, 1, at - 1) \o new
             \o ReplaceAll(SubSeq(s, at + Len(old), Len(s)), old, new)

(***************************************************************************)
(* Regular expressions: the constructs the validator's patterns use.       *)
(***************************************************************************)

Lit(str)        == [op |-> "lit", str |-> str]
Cls(set)        == [op |-> "cls", set |-> set, neg |-> FALSE]
NotCls(set)     == [op |-> "cls", set |-> set, neg |-> TRUE]
AnyChar         == [op |-> "any"]
Cat(rs)         == [op |-> "cat", rs |-> rs]
Alt(rs)         == [op |-> "alt", rs |-> rs]
\* r{lo,hi}; hi = -1 is "no upper limit"
Rep(r, lo, hi)  == [op |-> "rep", r |-> r, lo |-> lo, hi |-> hi]
Star(r)         == Rep(r, 0, -1)
Plus(r)         == Rep(r, 1, -1)
Opt(r)          == Rep(r, 0, 1)
Bol             == [op |-> "bol"]
Eol             == [op |-> "eol"]

\* \s*  \s+  \w+  \w*
S0 == Star(Cls(Whitespace))
S1 == Plus(Cls(Whitespace))
W1 == Plus(Cls(WordChars))
W0 == Star(Cls(WordChars))

RECURSIVE MatchEnds(_, _, _), CatEnds(_, _, _, _), RepEnds(_, _, _, _, _, _)

\* The positions (numbers of characters of s consumed) at which a match of r
\* can end when it starts at one of the positions of from.
MatchEnds(r, s, from) ==
  CASE r.op = "lit" ->
         { p + Len(r.str) :
             p \in { q \in from : /\ q + Len(r.str) <= Len(s)
                                  /\ SubSeq(s, q + 1, q + Len(r.str)) = r.str } }
    [] r.op = "cls" ->
         { p + 1 :
             p \in { q \in from : /\ q < Len(s)
                                  /\ (Char(s, q + 1) \in r.set) # r.neg } }
    [] r.op = "any" ->
         { p + 1 : p \in { q \in from : q < Len(s) /\ Char(s, q + 1) # "\n" } }
    [] r.op = "cat" -> CatEnds(r.rs, 1, s, from)
    [] r.op = "alt" -> UNION { MatchEnds(r.rs[i], s, from) : i \in DOMAIN r.rs }
    [] r.op = "rep" -> RepEnds(r.r, r.lo, r.hi, s, from, from)
    [] r.op = "bol" -> from \cap {0}
    [] r.op = "eol" ->
         { p \in from : \/ p = Len(s)
                        \/ p = Len(s) - 1 /\ Char(s, Len(s)) = "\n" }

CatEnds(rs, i, s, from) ==
  IF i > Len(rs) \/ from = {} THEN from
  ELSE CatEnds(rs, i + 1, s, MatchEnds(rs[i], s, from))

\* lo mandatory repetitions first; then up to hi more (hi = -1: any number),
\* collecting in acc every position reached, frontier the ones reached last.
RepEnds(r, lo, hi, s, acc, frontier) ==
  IF lo > 0
  THEN LET next == MatchEnds(r, s, frontier)
       IN  RepEnds(r, lo - 1, IF hi = -1 THEN -1 ELSE hi - 1, s, next, next)
  ELSE IF hi = 0 \/ frontier = {} THEN acc
  ELSE LET next == MatchEnds(r, s, frontier) \ acc
       IN  RepEnds(r, 0, IF hi = -1 THEN -1 ELSE hi - 1, s, acc \cup next, next)

\* re.match(pattern, s): a match that starts at the beginning of s.
re_match(pattern, s) == MatchEnds(pattern, s, {0}) # {}

\* re.search(pattern, s): a match that starts anywhere in s.
re_search(pattern, s) == MatchEnds(pattern, s, 0 .. Len(s)) # {}

\* sub in s
Contains(s, sub) == Find(s, sub, 1) # 0

(***************************************************************************)
(* The grammar registry: MermaidValidator.diagram_patterns.  Each pattern  *)
(* is the expression the source writes, piece by piece.                    *)
(***************************************************************************)

\* (\s+as\s+["'][^"']*["'])?
AsAlias ==
  Opt(Cat(<<S1, Lit("as"), S1, Cls({"\"", "'"}), Star(NotCls({"\"", "'"})),
            Cls({"\"", "'"})>>))

SequencePatterns ==
  [ start       |-> Cat(<<Bol, Lit("sequenceDiagram"), S0>>),
    start_src   |-> "^sequenceDiagram\\s*",
    participant |-> Cat(<<Lit("participant"), S1, W1, AsAlias, S0>>),
    actor       |-> Cat(<<Lit("actor"), S1, W1, AsAlias, S0>>),
    arrow       |-> Cat(<<W1, S0, Rep(Lit("-"), 1, 2), Rep(Lit(">"), 1, 2), S0,
                          W1, S0, Lit(":"), S0, Plus(AnyChar)>>),
    note        |-> Cat(<<Lit("Note"), S1,
                          Alt(<<Lit("over"), Lit("left of"), Lit("right of")>>),
                          S1, W1, Opt(Cat(<<Lit(","), W1>>)), S0, Lit(":"), S0,
                          Plus(AnyChar)>>),
    activate    |-> Cat(<<Lit("activate"), S1, W1>>),
    deactivate  |-> Cat(<<Lit("deactivate"), S1, W1>>) ]

FlowchartPatterns ==
  [ start      |-> Cat(<<Bol, Alt(<<Lit("flowchart"), Lit("graph")>>), S1,
                         Alt(<<Lit("TD"), Lit("TB"), Lit("BT"), Lit("RL"),
                               Lit("LR")>>), S0>>),
    start_src  |-> "^(flowchart|graph)\\s+(TD|TB|BT|RL|LR)\\s*",
    node       |-> Alt(<<Cat(<<W1, Lit("["), Plus(NotCls({"]"})), Lit("]")>>),
                         Cat(<<W1, Lit("("), Plus(NotCls({")"})), Lit(")")>>),
                         Cat(<<W1, Lit("{"), Plus(NotCls({"}"})), Lit("}")>>),
                         Cat(<<W1, Lit(">"), Plus(NotCls({"]"})), Lit("]")>>),
                         W1>>),
    connection |-> Alt(<<Cat(<<W1, S0, Lit("--"), Opt(Cls({">", "o"})), S0, W1>>),
                         Cat(<<W1, S0, Lit("-."), S0, W1>>),
                         Cat(<<W1, S0, Lit("==>"), S0, W1>>)>>),
    label      |-> Cat(<<W1, S0, Lit("--|"), Plus(NotCls({"|"})), Lit("|"), S0,
                         W1>>),
    subgraph   |-> Cat(<<Lit("subgraph"), S1, Plus(NotCls({"\n"}))>>),
    end        |-> Cat(<<Bol, Lit("end"), S0, Eol>>) ]

\* \[?\*\]?
StarState == Cat(<<Opt(Lit("[")), Lit("*"), Opt(Lit("]"))>>)

StatePatterns ==
  [ start      |-> Cat(<<Bol, Lit("stateDiagram-v2"), S0>>),
    start_src  |-> "^stateDiagram-v2\\s*",
    state      |-> Alt(<<Cat(<<W1, S0, Lit(":"), S0, Plus(AnyChar)>>),
                         Cat(<<StarState, S0, Lit("-->"), S0, W1>>),
                         Cat(<<W1, S0, Lit("-->"), S0, StarState>>)>>),
    transition |-> Cat(<<W1, S0, Lit("-->"), S0, W1,
                         Opt(Cat(<<S0, Lit(":"), S0, Plus(AnyChar)>>))>>) ]

ClassPatterns ==
  [ start        |-> Cat(<<Bol, Lit("classDiagram"), S0>>),
    start_src    |-> "^classDiagram\\s*",
    class        |-> Cat(<<Lit("class"), S1, W1, S0, Lit("{"),
                           Star(NotCls({"}"})), Lit("}")>>),
    relationship |-> Cat(<<W1, S0,
                           Alt(<<Lit("<|--"), Lit("--|"), Lit("--"), Lit(".."),
                                 Lit("<.."), Lit("..>"), Lit("<|..")>>),
                           S0, W1>>) ]

ErPatterns ==
  [ start        |-> Cat(<<Bol, Lit("erDiagram"), S0>>),
    start_src    |-> "^erDiagram\\s*",
    relationship |-> Cat(<<W1, S0,
                           Alt(<<Cat(<<Lit("||--"), Cls({"o", "|"}), Lit("{")>>),
                                 Lit("||--o|"), Lit("}|--||"), Lit("|o--||")>>),
                           S0, W1>>),
    entity       |-> Cat(<<W1, S0, Lit("{"), Star(NotCls({"}"})), Lit("}")>>) ]

GanttPatterns ==
  [ start     |-> Cat(<<Bol, Lit("gantt"), S0>>),
    start_src |-> "^gantt\\s*",
    title     |-> Cat(<<Lit("title"), S1, Plus(AnyChar)>>),
    section   |-> Cat(<<Lit("section"), S1, Plus(AnyChar)>>),
    task      |-> Cat(<<Plus(AnyChar), S0, Lit(":"), S0,
                        Opt(Alt(<<Lit("done"), Lit("active"), Lit("crit")>>)),
                        Opt(Lit(",")), S0, W0, Opt(Lit(",")), S0,
                        Plus(Cls(Digits \cup {"-"})), Opt(Lit(",")), S0,
                        Star(Cls(Digits)), Opt(Cls({"d", "h", "m"}))>>) ]

\* self.diagram_patterns
diagram_patterns ==
  ("sequenceDiagram" :> SequencePatterns) @@
  ("flowchart" :> FlowchartPatterns) @@
  ("stateDiagram-v2" :> StatePatterns) @@
  ("classDiagram" :> ClassPatterns) @@
  ("erDiagram" :> ErPatterns) @@
  ("gantt" :> GanttPatterns)

(***************************************************************************)
(* The validator: MermaidValidator.validate_mermaid and its walks.         *)
(*                                                                         *)
(* A verdict is the pair the code returns, (is_valid, error_message), with *)
(* two counters that record what the call did: start_checked, whether the  *)
(* first line was matched against the start pattern, and examined, the     *)
(* number of body lines the walk looked at.                                *)
(***************************************************************************)

\* Python's None, for error_message.
None == "None"

Verdict(is_valid, error_message, start_checked, examined) ==
  [ is_valid |-> is_valid, error_message |-> error_message,
    start_checked |-> start_checked, examined |-> examined ]

\* A rejected line reported without a message.
NoMessage(name, line) == None

\* f"Invalid {name} syntax: '{line}'", the message of a rejected body line
SyntaxMessage(name, line) == "Invalid " \o name \o " syntax: '" \o line \o "'"

\* any(re.match(pattern, line) for pattern in valid_patterns)
SequenceLineMatches(line, patterns) ==
  \/ re_match(patterns.participant, line)
  \/ re_match(patterns.actor, line)
  \/ re_match(patterns.arrow, line)
  \/ re_match(patterns.note, line)
  \/ re_match(patterns.activate, line)
  \/ re_match(patterns.deactivate, line)

RECURSIVE SequenceLoopLast(_, _, _)
\* A loop that goes on after a rejected line and reports the last one.
SequenceLoopLast(lines, patterns, i) ==
  IF i > Len(lines) THEN Verdict(TRUE, None, TRUE, Len(lines))
  ELSE LET rest == SequenceLoopLast(lines, patterns, i + 1)
       IN  IF lines[i] = "" \/ SequenceLineMatches(lines[i], patterns) \/ ~rest.is_valid
           THEN rest
           ELSE Verdict(FALSE, SyntaxMessage("sequence diagram", lines[i]), TRUE, i)

RECURSIVE SequenceLoop(_, _, _)
\* for line in lines (from the i-th on): return at the first line no pattern matches
SequenceLoop(lines, patterns, i) ==
  IF i > Len(lines) THEN Verdict(TRUE, None, TRUE, Len(lines))
  ELSE IF lines[i] = "" THEN SequenceLoop(lines, patterns, i + 1)
  ELSE IF ~SequenceLineMatches(lines[i], patterns)
       THEN Verdict(FALSE, SyntaxMessage("sequence diagram", lines[i]), TRUE, i)
       ELSE SequenceLoop(lines, patterns, i + 1)

_validate_sequence_diagram(lines, patterns) == SequenceLoop(lines, patterns, 1)

\* the line passes the pattern check or the "basic node or connection" check
FlowchartLineMatches(line, patterns) ==
  \/ re_search(patterns.node, line)
  \/ re_search(patterns.connection, line)
  \/ re_search(patterns.label, line)
  \/ /\ re_search(W1, line)
     /\ \/ Contains(line, "-->")
        \/ Contains(line, "->")
        \/ Contains(line, "[")
        \/ Contains(line, "(")

RECURSIVE FlowchartLoop(_, _, _, _)
\* for line in lines (from the i-th on), with the subgraph depth so far
FlowchartLoop(lines, patterns, i, subgraph_depth) ==
  IF i > Len(lines)
  THEN IF subgraph_depth # 0
       THEN Verdict(FALSE, "Unmatched subgraph blocks (missing 'end' statements)",
                    TRUE, Len(lines))
       ELSE Verdict(TRUE, None, TRUE, Len(lines))
  ELSE IF lines[i] = "" THEN FlowchartLoop(lines, patterns, i + 1, subgraph_depth)
  ELSE IF re_match(patterns.subgraph, lines[i])
       THEN FlowchartLoop(lines, patterns, i + 1, subgraph_depth + 1)
  ELSE IF re_match(patterns.end, lines[i])
       THEN FlowchartLoop(lines, patterns, i + 1, subgraph_depth - 1)
  ELSE IF ~FlowchartLineMatches(lines[i], patterns)
       THEN Verdict(FALSE, SyntaxMessage("flowchart", lines[i]), TRUE, i)
       ELSE FlowchartLoop(lines, patterns, i + 1, subgraph_depth)

\* A walk without the depth check after the loop.
FlowchartWalkNoDepthCheck(lines, patterns) ==
  LET v == FlowchartLoop(lines, patterns, 1, 0)
  IN  IF v.error_message = "Unmatched subgraph blocks (missing 'end' statements)"
      THEN Verdict(TRUE, None, TRUE, Len(lines))
      ELSE v

_validate_flowchart(lines, patterns) == FlowchartLoop(lines, patterns, 1, 0)

StateLineMatches(line, patterns) ==
  \/ re_search(patterns.state, line)
  \/ re_search(patterns.transition, line)
  \/ re_search(Cat(<<Lit("note"), S1>>), line)
  \/ re_search(Cat(<<Lit("state"), S1, W1>>), line)
  \/ re_search(Cat(<<W1, S0, Lit("-->"), S0, W1>>), line)
  \/ re_search(Lit("[*]"), line)
  \/ re_search(Cat(<<W1, S0, Lit(":"), S0>>), line)

RECURSIVE StateLoop(_, _, _)
StateLoop(lines, patterns, i) ==
  IF i > Len(lines) THEN Verdict(TRUE, None, TRUE, Len(lines))
  ELSE IF lines[i] = "" THEN StateLoop(lines, patterns, i + 1)
  ELSE IF ~StateLineMatches(lines[i], patterns)
       THEN Verdict(FALSE, SyntaxMessage("state diagram", lines[i]), TRUE, i)
       ELSE StateLoop(lines, patterns, i + 1)

_validate_state_diagram(lines, patterns) == StateLoop(lines, patterns, 1)

\* A class walk that knows the shapes of the registry and no other.
ClassLineMatchesRegistered(line, patterns) ==
  \/ re_search(patterns.class, line)
  \/ re_search(patterns.relationship, line)

ClassLineMatches(line, patterns) ==
  \/ re_search(patterns.class, line)
  \/ re_search(patterns.relationship, line)
  \/ re_search(Cat(<<W1, S0, Lit("{")>>), line)
  \/ re_search(Cat(<<Opt(Cls({"+", "-", "#", "~"})), W1, Star(AnyChar)>>), line)
  \/ re_search(Lit("}"), line)
  \/ re_search(Cat(<<Lit("class"), S1, W1>>), line)

RECURSIVE ClassLoop(_, _, _)
ClassLoop(lines, patterns, i) ==
  IF i > Len(lines) THEN Verdict(TRUE, None, TRUE, Len(lines))
  ELSE IF lines[i] = "" THEN ClassLoop(lines, patterns, i + 1)
  ELSE IF ~ClassLineMatches(lines[i], patterns)
       THEN Verdict(FALSE, SyntaxMessage("class diagram", lines[i]), TRUE, i)
       ELSE ClassLoop(lines, patterns, i + 1)

_validate_class_diagram(lines, patterns) == ClassLoop(lines, patterns, 1)

ErLineMatches(line, patterns) ==
  \/ re_search(patterns.relationship, line)
  \/ re_search(patterns.entity, line)
  \/ re_search(Cat(<<W1, S0, Lit("{")>>), line)
  \/ re_search(Lit("}"), line)
  \/ re_search(Cat(<<W1, S1, W1>>), line)
  \/ re_search(Cat(<<W1, S0, Plus(Cls({"|", "}", "{", "o", "-"})), Star(AnyChar),
                     W1>>), line)

RECURSIVE ErLoop(_, _, _)
ErLoop(lines, patterns, i) ==
  IF i > Len(lines) THEN Verdict(TRUE, None, TRUE, Len(lines))
  ELSE IF lines[i] = "" THEN ErLoop(lines, patterns, i + 1)
  ELSE IF ~ErLineMatches(lines[i], patterns)
       THEN Verdict(FALSE, SyntaxMessage("ER diagram", lines[i]), TRUE, i)
       ELSE ErLoop(lines, patterns, i + 1)

_validate_er_diagram(lines, patterns) == ErLoop(lines, patterns, 1)

GanttLineMatches(line, patterns) ==
  \/ re_search(patterns.title, line)
  \/ re_search(patterns.section, line)
  \/ re_search(patterns.task, line)
  \/ re_search(Cat(<<Lit("dateFormat"), S1>>), line)
  \/ re_search(Cat(<<Lit("axisFormat"), S1>>), line)
  \/ re_search(Cat(<<Lit("excludes"), S1>>), line)
  \/ re_search(Cat(<<Lit("todayMarker"), S1>>), line)
  \/ re_search(Cat(<<W1, S0, Lit(":"), S0>>), line)

RECURSIVE GanttLoop(_, _, _)
GanttLoop(lines, patterns, i) ==
  IF i > Len(lines) THEN Verdict(TRUE, None, TRUE, Len(lines))
  ELSE IF lines[i] = "" THEN GanttLoop(lines, patterns, i + 1)
  ELSE IF ~GanttLineMatches(lines[i], patterns)
       THEN Verdict(FALSE, SyntaxMessage("Gantt diagram", lines[i]), TRUE, i)
       ELSE GanttLoop(lines, patterns, i + 1)

_validate_gantt_diagram(lines, patterns) == GanttLoop(lines, patterns, 1)

\* The chain that maps a diagram type to the key of its grammar.
\* A mapping that knows "sequence" and not its alias "sequential".
validation_type_without_alias(diagram_type) ==
  IF diagram_type = "component" THEN "flowchart"
  ELSE IF diagram_type = "sequence" THEN "sequenceDiagram"
  ELSE IF diagram_type = "state" THEN "stateDiagram-v2"
  ELSE IF diagram_type = "class" THEN "classDiagram"
  ELSE IF diagram_type = "er" THEN "erDiagram"
  ELSE diagram_type

\* A mapping that sends "component" to a grammar of its own name.
validation_type_component_apart(diagram_type) ==
  IF diagram_type \in {"sequential", "sequence"} THEN "sequenceDiagram"
  ELSE IF diagram_type = "state" THEN "stateDiagram-v2"
  ELSE IF diagram_type = "class" THEN "classDiagram"
  ELSE IF diagram_type = "er" THEN "erDiagram"
  ELSE diagram_type

validation_type_of(diagram_type) ==
  IF diagram_type = "component" THEN "flowchart"
  ELSE IF diagram_type \in {"sequential", "sequence"} THEN "sequenceDiagram"
  ELSE IF diagram_type = "state" THEN "stateDiagram-v2"
  ELSE IF diagram_type = "class" THEN "classDiagram"
  ELSE IF diagram_type = "er" THEN "erDiagram"
  ELSE diagram_type

\* [line.strip() for line in mermaid_code.strip().split('\n') if line.strip()]
LinesOf(mermaid_code) == StrippedNonBlank(SplitLines(Strip(mermaid_code)))

\* The dispatch on validation_type, applied to lines[1:].
ValidateBody(validation_type, body, patterns) ==
  CASE validation_type = "sequenceDiagram" -> _validate_sequence_diagram(body, patterns)
    [] validation_type = "flowchart"       -> _validate_flowchart(body, patterns)
    [] validation_type = "stateDiagram-v2" -> _validate_state_diagram(body, patterns)
    [] validation_type = "classDiagram"    -> _validate_class_diagram(body, patterns)
    [] validation_type = "erDiagram"       -> _validate_er_diagram(body, patterns)
    [] validation_type = "gantt"           -> _validate_gantt_diagram(body, patterns)
    [] OTHER                               -> Verdict(TRUE, None, TRUE, 0)

\* A validator that walks the body before it looks at the start line.
CheckBodyFirst(lines, diagram_type, validation_type) ==
  LET patterns == diagram_patterns[validation_type]
      walked == ValidateBody(validation_type, Tail(lines), patterns)
  IN  IF ~walked.is_valid THEN walked
      ELSE IF ~re_match(patterns.start, lines[1])
      THEN Verdict(FALSE,
                   "Invalid " \o diagram_type \o " start. Expected pattern: "
                     \o patterns.start_src,
                   TRUE, walked.examined)
      ELSE walked

\* The start-line check and what follows it.
CheckStart(lines, diagram_type, validation_type) ==
  LET patterns == diagram_patterns[validation_type]
  IN  IF ~re_match(patterns.start, lines[1])
      THEN Verdict(FALSE,
                   "Invalid " \o diagram_type \o " start. Expected pattern: "
                     \o patterns.start_src,
                   TRUE, 0)
      ELSE ValidateBody(validation_type, Tail(lines), patterns)

\* An empty check without the strip: "not mermaid_code" alone.
IsEmptyInputNoStrip(mermaid_code) == mermaid_code = ""

\* not mermaid_code or not mermaid_code.strip()
IsEmptyInput(mermaid_code) == mermaid_code = "" \/ Strip(mermaid_code) = ""

\* MermaidValidator.validate_mermaid.  No step of it raises on a string, so
\* the "Validation error" handler of the source has no case here.
validate_mermaid(mermaid_code, diagram_type) ==
  IF IsEmptyInput(mermaid_code)
  THEN Verdict(FALSE, "Empty Mermaid code provided", FALSE, 0)
  ELSE LET lines == LinesOf(mermaid_code)
           validation_type == validation_type_of(diagram_type)
       IN  IF lines = <<>>
           THEN Verdict(FALSE, "No valid Mermaid content found", FALSE, 0)
           ELSE IF validation_type \notin DOMAIN diagram_patterns
           THEN Verdict(FALSE, "Unsupported diagram type: " \o diagram_type, FALSE, 0)
           ELSE CheckStart(lines, diagram_type, validation_type)

(***************************************************************************)
(* Diagram types: the keys of Settings.ALLOWED_DIAGRAM_TYPES, the only     *)
(* types a generate or edit flow is run for.                               *)
(***************************************************************************)

ALLOWED_DIAGRAM_TYPES ==
  ("sequential" :> "sequenceDiagram") @@
  ("sequence" :> "sequenceDiagram") @@
  ("component" :> "flowchart") @@
  ("flowchart" :> "flowchart") @@
  ("state" :> "stateDiagram-v2") @@
  ("class" :> "classDiagram") @@
  ("er" :> "erDiagram") @@
  ("gantt" :> "gantt")

DiagramTypes == DOMAIN ALLOWED_DIAGRAM_TYPES

(***************************************************************************)
(* The advisor: MermaidCorrector._get_error_specific_guidance.  A bullet   *)
(* is written "*".  The result is the list of hint lines the code joins    *)
(* with "\n", or the exception the call ends with.                         *)
(***************************************************************************)

\* The upper-case letters and their lower-case ones.
LowerOf ==
  LET upper == "ABCDEFGHIJKLMNOPQRSTUVWXYZ"
      lower == "abcdefghijklmnopqrstuvwxyz"
  IN  [ c \in { Char(upper, i) : i \in 1 .. 26 } |->
          Char(lower, CHOOSE i \in 1 .. 26 : Char(upper, i) = c) ]

RECURSIVE Lower(_)
\* str.lower()
Lower(s) ==
  IF Len(s) = 0 THEN ""
  ELSE IF Len(s) = 1 THEN (IF s \in DOMAIN LowerOf THEN LowerOf[s] ELSE s)
  ELSE LET half == Len(s) \div 2
       IN  Lower(SubSeq(s, 1, half)) \o Lower(SubSeq(s, half + 1, Len(s)))

\* An advisor whose groups of hints are all given, whatever the message.
HintsAlways(condition, hints) == hints

\* The guidance of one group of hints when its condition holds.
HintsIf(condition, hints) == IF condition THEN hints ELSE <<>>

\* A message that is None has no lower(): the call raises AttributeError.
GuidanceRaised == [kind |-> "raised", raised |-> "AttributeError"]

\* return "\n".join(guidance), as the list of its lines
GuidanceReturned(guidance) == [kind |-> "returned", hints |-> guidance]

_get_error_specific_guidance(message, type) ==
  IF message = None THEN GuidanceRaised
  ELSE
  LET error_lower == Lower(message)
      guidance ==
        HintsIf(Contains(error_lower, "invalid") /\ Contains(error_lower, "start"),
          << "* Fix the diagram declaration: Start with '" \o type
               \o "' (case-sensitive)",
             "* For flowcharts, use 'flowchart TD' or 'graph TD/LR/TB/BT'",
             "* For sequence diagrams, use 'sequenceDiagram'" >>)
        \o
        HintsIf(Contains(error_lower, "participant") \/ Contains(error_lower, "actor"),
          << "* Use correct participant syntax: 'participant A as \"Description\"'",
             "* Use correct actor syntax: 'actor A as \"Description\"'",
             "* Participant/actor names should be valid identifiers (no spaces)" >>)
        \o
        HintsIf(Contains(error_lower, "arrow") \/ Contains(error_lower, "-->"),
          << "* Check arrow syntax: 'A->>B: message' for sequence diagrams",
             "* Check connection syntax: 'A-->B' for flowcharts",
             "* Ensure proper spacing around arrows" >>)
        \o
        HintsIf(Contains(error_lower, "flowchart") \/ Contains(error_lower, "graph"),
          << "* Start with 'flowchart TD' or 'graph LR/TD/TB/BT'",
             "* Use node syntax: 'A[Label]', 'B(Label)', 'C{Decision}'",
             "* Use connection syntax: 'A-->B', 'A-.->B', 'A==>B'" >>)
        \o
        HintsIf(Contains(error_lower, "subgraph") \/ Contains(error_lower, "end"),
          << "* Every 'subgraph' must have a matching 'end'",
             "* Proper subgraph syntax: 'subgraph Title' followed by content and 'end'" >>)
        \o
        HintsIf(Contains(error_lower, "syntax"),
          << "* Review " \o type \o " specific syntax rules",
             "* Check for typos in keywords and operators",
             "* Ensure proper line breaks and indentation" >>)
        \o
        HintsIf(Contains(error_lower, "empty"),
          << "* Add actual diagram content after the declaration",
             "* Remove empty lines that might be causing issues" >>)
  IN  IF guidance = <<>>
      THEN GuidanceReturned(
             << "* Verify " \o type \o " syntax is correct",
                "* Check for typos in keywords and identifiers",
                "* Ensure proper spacing and line breaks",
                "* Remove any invalid characters or formatting" >>)
      ELSE GuidanceReturned(guidance)

(***************************************************************************)
(* The texts the validator is run on: up to MaxLines raw lines joined by   *)
(* "\n".  The raw lines are the start line of each grammar, a body line    *)
(* every grammar but the sequence one accepts, two body lines every        *)
(* grammar rejects, and a blank line; and the empty text.                  *)
(***************************************************************************)

MaxLines == 3

StartLines ==
  {"sequenceDiagram", "flowchart TD", "stateDiagram-v2", "classDiagram",
   "erDiagram", "gantt"}

BodyLines == {"A-->B", "???", "!!"}

BlankLines == {" \t"}

RawLines == StartLines \cup BodyLines \cup BlankLines

RECURSIVE Join(_)
\* "\n".join(raw)
Join(raw) ==
  IF raw = <<>> THEN ""
  ELSE IF Len(raw) = 1 THEN raw[1]
  ELSE raw[1] \o "\n" \o Join(Tail(raw))

ValidatorTexts ==
  {""} \cup
  { Join(raw) : raw \in UNION { [1 .. n -> RawLines] : n \in 1 .. MaxLines } }

\* A diagram type that is no key of ALLOWED_DIAGRAM_TYPES and that the
\* validator has no grammar for.
UnsupportedTypes == {"pie"}

\* Flowcharts with blocks: the start line and up to MaxLines body lines, each
\* an opening line, a closing line, a line that is accepted or one that is
\* rejected.
BlockLines == {"subgraph X", "end", "A-->B", "???"}

BlockTexts ==
  { Join(<<"flowchart TD">> \o body) :
      body \in UNION { [1 .. n -> BlockLines] : n \in 0 .. MaxLines } }

\* Block texts under a line that starts no flowchart.
WrongStartTexts ==
  { Join(<<"gantt">> \o body) :
      body \in { <<"subgraph X", "???">>, <<"end", "subgraph X">>,
                 <<"subgraph X">>, <<"A-->B">> } }

\* Texts with a body line that only a shape written in a walk accepts.
PermissiveTexts ==
  { "gantt\ndateFormat YYYY", "gantt\ntitle T\nA-->B", "classDiagram\n+run()",
    "classDiagram\n}\n???", "stateDiagram-v2\nnote x", "erDiagram\nA B" }

(***************************************************************************)
(* The oracle (the Groq chat completion) and what the generator does with  *)
(* its answer.                                                             *)
(***************************************************************************)

\* The backquote, which a TLA+ string cannot hold: "@" stands for it (no
\* pattern of the validator names either character).
BQ == "@"

\* Three backquotes: a code fence.
Fence == BQ \o BQ \o BQ

\* _chat_completion and _llm_correction_call, after the choices check:
\* (content or "").strip(), then .strip of backquote, newline and space,
\* then the two replace calls.
Scrub(content) ==
  ReplaceAll(ReplaceAll(StripChars(Strip(content), {BQ, "\n", " "}),
                        Fence \o "mermaid", ""),
             Fence, "")

\* stub_mermaid(kind): the text generate returns when there is no client.
stub_mermaid(kind) ==
  CASE kind = "sequenceDiagram" ->
         "sequenceDiagram\n" \o "actor R as Requester\n"
           \o "participant API as /query\n" \o "participant LLM as Model\n"
           \o "R->>API: POST prompt + diagram_types\n"
           \o "API->>LLM: generate mermaid\n" \o "LLM-->>API: mermaid source\n"
           \o "API-->>R: {type: mermaid}"
    [] kind = "flowchart" ->
         "flowchart TD\n" \o "A[Client]-->B(API /query)\n" \o "B-->C{LLM}\n"
           \o "C-->D[Mermaid JSON]"
    [] kind = "stateDiagram-v2" ->
         "stateDiagram-v2\n[*] --> Idle\nIdle --> Generating: receive request\n"
           \o "Generating --> Responded: all diagrams ready\nResponded --> [*]"
    [] kind = "classDiagram" ->
         "classDiagram\n"
           \o "class QueryRequest{\n+string prompt\n+string[] diagram_types\n}\n"
           \o "class QueryResponse\n" \o "QueryRequest --> QueryResponse"
    [] kind = "erDiagram" ->
         "erDiagram\nREQUEST ||--o{ DIAGRAM : contains\n"
           \o "REQUEST {string prompt}\nDIAGRAM {string type}"
    [] kind = "gantt" ->
         "gantt\n" \o "title Diagram Generation\n"
           \o "section API\nValidate:done, 2025-09-20, 1d\nLLM:active, 2025-09-21, 1d"
    [] OTHER -> "flowchart LR\nStart-->Unknown[Unsupported diagram type]"

\* The message contents the oracle may answer with: a sequence diagram, a
\* fenced flowchart (the fence is scrubbed away), a gantt chart, no content,
\* and a text fenced with the word mermaid (the scrub leaves a first line
\* "mermaid").
OracleContents ==
  { "sequenceDiagram\nA->>B: hi",
    Fence \o "\nflowchart TD\nA-->B\n" \o Fence,
    "gantt\ntitle T",
    "",
    Fence \o "mermaid\nerDiagram\nA ||--o{ B : has\n" \o Fence }

\* The ways an oracle call fails: asyncio.wait_for times out, or the SDK
\* call raises.
OracleFaults == {"timeout", "api_error"}

\* What one oracle call comes back with.
OracleAnswers ==
  [kind : {"content"}, content : OracleContents] \cup
  [kind : {"fault"}, fault : OracleFaults]

\* Every text a flow can hand to the validator.
FlowTexts ==
  { Scrub(c) : c \in OracleContents } \cup
  { stub_mermaid(ALLOWED_DIAGRAM_TYPES[t]) : t \in DiagramTypes }

\* self.validator.validate_mermaid on the texts of the flows, as a function.
ValidatorTable ==
  [ c \in FlowTexts, t \in DiagramTypes \cup UnsupportedTypes |->
      validate_mermaid(c, t) ]

\* self.validator.validate_mermaid(code, diagram_type) in MermaidCorrector
Validate(code, diagram_type) == ValidatorTable[code, diagram_type]

(***************************************************************************)
(* The state.                                                              *)
(*                                                                         *)
(* One client is followed: it sends one /query request, or a /chat/start   *)
(* request and then /chat/{id}/message requests.  A request names one      *)
(* diagram type, so it runs one generate or edit flow.  pc names the call  *)
(* the flow is awaiting.                                                   *)
(***************************************************************************)

VARIABLES
  client,           \* GroqDiagramGenerator.client is set (there is an API key)
  db,               \* the chat session: its messages and its diagram states
  endpoint,         \* the route handler that is running, or ran last
  diagram_type,     \* the diagram type of the flow
  original_prompt,  \* the prompt or instruction, after enhancement
  pc,               \* "idle", the awaited call, or "done"
  draft,            \* what generate or edit_diagram came back with
  mermaid_code,     \* validate_and_correct's argument
  current_mermaid,  \* validate_and_correct's current_mermaid
  error_message,    \* validate_and_correct's error_message
  attempt,          \* validate_and_correct's loop variable
  llm_calls,        \* the arguments of each _get_llm_correction call so far
  llm_results,      \* what each finished _get_llm_correction call gave
  validations,      \* the number of validate_mermaid calls of the flow
  outcome,          \* how the flow ended: a returned text or a raised exception
  response,         \* the response the client got
  v_mermaid_code,   \* validate_mermaid's mermaid_code, when it is run alone
  v_diagram_type,   \* validate_mermaid's diagram_type, when it is run alone
  v_verdict,        \* what validate_mermaid returned, when it is run alone
  v_guidance,       \* what the advisor gave for an invalid verdict
  tasks,            \* the flows of one /query request with several types
  g_response        \* the response to that request

flow_vars ==
  <<original_prompt, pc, draft, mermaid_code, current_mermaid, error_message,
    attempt, llm_calls, llm_results, validations, outcome>>

request_vars == <<db, endpoint, diagram_type, response>>

validator_vars == <<v_mermaid_code, v_diagram_type, v_verdict, v_guidance>>

gather_vars == <<tasks, g_response>>

vars == <<client, request_vars, flow_vars, validator_vars, gather_vars>>

\* self.max_retries = 3
max_retries == 3

\* A generator built without a corrector, as the base class leaves it.
NoCorrector == FALSE

\* GroqDiagramGenerator.__init__ sets self.corrector = MermaidCorrector(self)
corrector == TRUE

\* The number of /chat/{id}/message requests the client sends at most.
MaxMessages == 2

\* req.prompt, req.initial_prompt or req.message
BasePrompt == "prompt"

\* What FeedbackAdapter appends to a prompt when there is feedback to use.
Guidance == " +guidance"

NoOutcome == [kind |-> "none"]
NoResponse == [status_code |-> 0]
NoVerdict == [is_valid |-> "none"]
NoGuidance == [kind |-> "none"]
NoDraft == [kind |-> "none"]

\* The database before any session is created.
EmptyDb == [session |-> FALSE, messages |-> <<>>, diagrams |-> <<>>]

\* A flow that returned (corrected_mermaid, was_corrected).
Returned(text, was_corrected) ==
  [kind |-> "returned", text |-> text, was_corrected |-> was_corrected]

\* A flow that raised: an HTTPException with its status, or another Exception.
Raised(exception, status_code, detail) ==
  [kind |-> "raised", exception |-> exception, status_code |-> status_code,
   detail |-> detail]

\* The exception a failed oracle call surfaces as: wait_for's TimeoutError is
\* turned into HTTPException(504), an error of the SDK call stays as it is.
FaultRaised(fault, detail504) ==
  IF fault = "timeout" THEN Raised("HTTPException", 504, detail504)
  ELSE Raised("Exception", 0, "api error")

(***************************************************************************)
(* How each route handler ends, given how its flow ended.                  *)
(***************************************************************************)

\* A handler whose "except Exception" came before "except HTTPException":
\* every failure would be answered 502.
ErrorStatusGeneric(out) == 502

\* The handlers of query and start_chat: "except HTTPException: raise", and
\* any other exception becomes HTTPException(502).
ErrorStatus(out) ==
  IF out.exception = "HTTPException" THEN out.status_code ELSE 502

\* query, from the end of asyncio.gather on.
query_response(out) ==
  IF out.kind = "returned"
  THEN [status_code |-> 200, diagrams |-> (diagram_type :> out.text)]
  ELSE [status_code |-> ErrorStatus(out)]

RECURSIVE InitialRows(_)
\* for diagram_type, mermaid_code in initial_diagrams.items(): a DiagramState
\* at version 1 for each item of the dict
InitialRows(initial_diagrams) ==
  IF DOMAIN initial_diagrams = {} THEN <<>>
  ELSE LET t == CHOOSE t \in DOMAIN initial_diagrams : TRUE
       IN  << [diagram_type |-> t, current_mermaid |-> initial_diagrams[t],
               version |-> 1] >>
           \o InitialRows([ u \in DOMAIN initial_diagrams \ {t} |->
                              initial_diagrams[u] ])

\* ChatService.create_chat_session: the session, its system message and the
\* rows of diagram_states.
create_chat_session(initial_diagrams) ==
  [ session  |-> TRUE,
    messages |-> <<"system">>,
    diagrams |-> InitialRows(initial_diagrams) ]

\* start_chat, from the end of asyncio.gather on.
start_chat_response(out) ==
  IF out.kind = "returned"
  THEN [status_code |-> 200, diagrams |-> (diagram_type :> out.text)]
  ELSE [status_code |-> ErrorStatus(out)]

start_chat_db(out) ==
  IF out.kind = "returned"
  THEN create_chat_session(diagram_type :> out.text)
  ELSE db

\* The rows of diagram_states with the diagram type, by position.
RowsOfType(d, type) ==
  { i \in DOMAIN d.diagrams : d.diagrams[i].diagram_type = type }

\* An update that stores the text and leaves the version of the row as it is.
update_diagram_same_version(d, type, text) ==
  IF RowsOfType(d, type) # {}
  THEN [d EXCEPT !.diagrams[Min(RowsOfType(d, type))] =
          [@ EXCEPT !.current_mermaid = text]]
  ELSE [d EXCEPT !.diagrams =
          Append(@, [diagram_type |-> type, current_mermaid |-> text,
                     version |-> 1])]

\* ChatService.update_diagram: the first row of the type gets the text and
\* the next version; without such a row, a new one at version 1 is added.
update_diagram(d, type, text) ==
  IF RowsOfType(d, type) # {}
  THEN [d EXCEPT !.diagrams[Min(RowsOfType(d, type))] =
          [@ EXCEPT !.current_mermaid = text, !.version = @ + 1]]
  ELSE [d EXCEPT !.diagrams =
          Append(@, [diagram_type |-> type, current_mermaid |-> text,
                     version |-> 1])]

\* ChatService.add_user_message, add_assistant_message
add_message(d, role) == [d EXCEPT !.messages = Append(@, role)]

\* ChatService.get_session_diagrams: {d.diagram_type: d.current_mermaid ...}
get_session_diagrams(d) ==
  [ t \in { d.diagrams[i].diagram_type : i \in DOMAIN d.diagrams } |->
      d.diagrams[Max(RowsOfType(d, t))].current_mermaid ]

\* send_message, after the edit of the target: the diagram is updated when
\* the edit returned and kept when it raised; then the assistant message.
send_message_db(out) ==
  add_message(IF out.kind = "returned"
              THEN update_diagram(db, diagram_type, out.text)
              ELSE db,
              "assistant")

send_message_response(out) ==
  [ status_code      |-> 200,
    updated_diagrams |->
      (diagram_type :> IF out.kind = "returned" THEN out.text
                       ELSE get_session_diagrams(db)[diagram_type]),
    all_diagrams     |-> get_session_diagrams(send_message_db(out)) ]

\* The flow ended with out: the handler that awaited it ends too.
EndRequest(out) ==
  /\ outcome' = out
  /\ pc' = "done"
  /\ response' = CASE endpoint = "query"        -> query_response(out)
                   [] endpoint = "start_chat"   -> start_chat_response(out)
                   [] endpoint = "send_message" -> send_message_response(out)
                   [] endpoint = "validate_and_correct" -> NoResponse
  /\ db' = CASE endpoint = "query"        -> db
             [] endpoint = "start_chat"   -> start_chat_db(out)
             [] endpoint = "send_message" -> send_message_db(out)
             [] endpoint = "validate_and_correct" -> db

(***************************************************************************)
(* MermaidCorrector.validate_and_correct.                                  *)
(***************************************************************************)

\* A first return that claims a correction it did not make.
ReturnUnchangedFlagged(text) == Returned(text, TRUE)

\* A loop return that hands back the text that went into the attempt.
ReturnPrevious(corrected_mermaid) == Returned(current_mermaid, TRUE)

\* A loop that gives up one attempt early.
MoreAttemptsShort == attempt + 1 < max_retries - 1

\* A loop that runs one attempt more than max_retries.
MoreAttemptsLong == attempt < max_retries

\* return mermaid_code, False
ReturnUnchanged(text) == Returned(text, FALSE)

\* return corrected_mermaid, True
ReturnCorrected(corrected_mermaid) == Returned(corrected_mermaid, TRUE)

\* for attempt in range(self.max_retries): there is another iteration
MoreAttempts == attempt + 1 < max_retries

\* raise HTTPException(status_code=422, ...) after the loop
Exhausted(message) ==
  Raised("HTTPException", 422,
         "Failed to generate valid Mermaid diagram after 3 attempts. Last error: "
           \o message)

\* A correction call that sends the new text with the reason the loop held
\* before it.
LlmCallStaleReason(text, message) ==
  [invalid_mermaid |-> text,
   error_message |-> IF error_message = None THEN message ELSE error_message]

\* The call of _get_llm_correction at the top of a loop iteration.
LlmCall(text, message) == [invalid_mermaid |-> text, error_message |-> message]

\* From the call of validate_and_correct to its first await or its return:
\* the first validation, and the first correction call when it fails.
EnterCorrector(raw_mermaid) ==
  LET v == Validate(raw_mermaid, diagram_type)
  IN  /\ mermaid_code' = raw_mermaid
      /\ validations' = 1
      /\ llm_results' = <<>>
      /\ IF v.is_valid
         THEN /\ EndRequest(ReturnUnchanged(raw_mermaid))
              /\ current_mermaid' = ""
              /\ error_message' = None
              /\ attempt' = 0
              /\ llm_calls' = <<>>
         ELSE /\ current_mermaid' = raw_mermaid
              /\ error_message' = v.error_message
              /\ attempt' = 0
              /\ llm_calls' = <<LlmCall(raw_mermaid, v.error_message)>>
              /\ pc' = "_get_llm_correction"
              /\ UNCHANGED <<outcome, response, db>>

\* generate_with_validation and edit_diagram_with_validation, from the return
\* of the draft on: through the corrector when there is one.
AfterDraft(raw_mermaid) ==
  IF corrector
  THEN EnterCorrector(raw_mermaid)
  ELSE /\ EndRequest(Returned(raw_mermaid, FALSE))
       /\ mermaid_code' = ""
       /\ validations' = 0
       /\ llm_results' = <<>>
       /\ current_mermaid' = ""
       /\ error_message' = None
       /\ attempt' = 0
       /\ llm_calls' = <<>>

\* The draft call raised: nothing of validate_and_correct runs.
DraftRaised(out) ==
  /\ EndRequest(out)
  /\ mermaid_code' = ""
  /\ validations' = 0
  /\ llm_results' = <<>>
  /\ current_mermaid' = ""
  /\ error_message' = None
  /\ attempt' = 0
  /\ llm_calls' = <<>>

\* A loop whose error_message is sometimes left as it was when an output is
\* rejected: the message it goes on with is not fixed by what it was given.
NextAttemptEitherMessage(text, message) ==
  \E kept \in {message, error_message} :
    /\ current_mermaid' = text
    /\ error_message' = kept
    /\ IF MoreAttempts
       THEN /\ attempt' = attempt + 1
            /\ llm_calls' = Append(llm_calls, LlmCall(text, kept))
            /\ UNCHANGED <<pc, outcome, response, db>>
       ELSE /\ EndRequest(Exhausted(kept))
            /\ UNCHANGED <<attempt, llm_calls>>

\* The end of a loop iteration that did not return: the next iteration makes
\* the next correction call, and after the last one the loop is left and
\* HTTPException(422) is raised with the last error message.
NextAttempt(text, message) ==
  /\ current_mermaid' = text
  /\ error_message' = message
  /\ IF MoreAttempts
     THEN /\ attempt' = attempt + 1
          /\ llm_calls' = Append(llm_calls, LlmCall(text, message))
          /\ UNCHANGED <<pc, outcome, response, db>>
     ELSE /\ EndRequest(Exhausted(message))
          /\ UNCHANGED <<attempt, llm_calls>>

(***************************************************************************)
(* The actions: a route handler up to its first await, and the return of   *)
(* each awaited call with everything that runs up to the next await.       *)
(***************************************************************************)

\* A new flow: the locals of the previous one are gone.
FreshFlow ==
  /\ draft' = NoDraft
  /\ mermaid_code' = ""
  /\ current_mermaid' = ""
  /\ error_message' = None
  /\ attempt' = 0
  /\ llm_calls' = <<>>
  /\ llm_results' = <<>>
  /\ validations' = 0
  /\ outcome' = NoOutcome

\* POST /query with one diagram type: db_session is None, so the prompt is
\* not enhanced; generate is awaited.
query(t) ==
  /\ pc = "idle"
  /\ endpoint' = "query"
  /\ diagram_type' = t
  /\ original_prompt' = BasePrompt
  /\ pc' = "generate"
  /\ response' = NoResponse
  /\ FreshFlow
  /\ UNCHANGED <<client, db, validator_vars, gather_vars>>

\* POST /chat/start with one diagram type: user_identifier is None, so the
\* prompt is not enhanced; generate is awaited.
start_chat(t) ==
  /\ pc = "idle"
  /\ endpoint' = "start_chat"
  /\ diagram_type' = t
  /\ original_prompt' = BasePrompt
  /\ pc' = "generate"
  /\ response' = NoResponse
  /\ FreshFlow
  /\ UNCHANGED <<client, db, validator_vars, gather_vars>>

\* An enhancement whose exception takes the instruction with it.
enhanced_instruction_lost(edit_instruction, enhance) ==
  IF enhance = "guidance" THEN edit_instruction \o Guidance
  ELSE IF enhance = "raises" THEN ""
  ELSE edit_instruction

\* enhanced_instruction in edit_diagram_with_validation: edit_instruction,
\* replaced by what enhance_edit_prompt returns when it returns; an exception
\* of the adapter is caught and leaves it as it was.
enhanced_instruction(edit_instruction, enhance) ==
  IF enhance = "guidance" THEN edit_instruction \o Guidance ELSE edit_instruction

\* POST /chat/{id}/message naming one target diagram.  404 without a session.
\* Otherwise the user message is stored; a target the session does not hold
\* is skipped and the handler ends at once; else the instruction is enhanced
\* (enhance is what the feedback adapter does: it raises, finds nothing to
\* add, or appends guidance) and edit_diagram is awaited.
send_message(t, enhance) ==
  /\ pc = "done"
  /\ endpoint \in {"start_chat", "send_message"}
  /\ Len(db.messages) < 1 + 2 * MaxMessages
  /\ endpoint' = "send_message"
  /\ diagram_type' = t
  /\ FreshFlow
  /\ IF ~db.session
     THEN /\ response' = [status_code |-> 404]
          /\ original_prompt' = BasePrompt
          /\ UNCHANGED <<pc, db>>
     ELSE IF t \notin DOMAIN get_session_diagrams(db)
     THEN /\ db' = add_message(add_message(db, "user"), "assistant")
          /\ response' = [status_code |-> 200, updated_diagrams |-> <<>>,
                          all_diagrams |-> get_session_diagrams(db)]
          /\ original_prompt' = BasePrompt
          /\ UNCHANGED pc
     ELSE /\ db' = add_message(db, "user")
          /\ original_prompt' = enhanced_instruction(BasePrompt, enhance)
          /\ response' = NoResponse
          /\ pc' = "edit_diagram"
  /\ UNCHANGED <<client, validator_vars, gather_vars>>

\* What the awaited chat completion comes back with.
DraftAnswers(fallback) ==
  IF client THEN OracleAnswers ELSE {[kind |-> "content", content |-> fallback]}

\* GroqDiagramGenerator.generate returns or raises; without a client it
\* returns the stub.  Then generate_with_validation goes on.
generate(answer) ==
  /\ pc = "generate"
  /\ answer \in DraftAnswers(stub_mermaid(ALLOWED_DIAGRAM_TYPES[diagram_type]))
  /\ draft' = answer
  /\ IF answer.kind = "fault"
     THEN DraftRaised(FaultRaised(answer.fault, "LLM generation timeout"))
     ELSE AfterDraft(IF client THEN Scrub(answer.content) ELSE answer.content)
  /\ UNCHANGED <<client, endpoint, diagram_type, original_prompt, validator_vars, gather_vars>>

\* GroqDiagramGenerator.edit_diagram returns or raises; without a client it
\* returns current_diagram.  Then edit_diagram_with_validation goes on.
edit_diagram(answer) ==
  /\ pc = "edit_diagram"
  /\ answer \in DraftAnswers(get_session_diagrams(db)[diagram_type])
  /\ draft' = answer
  /\ IF answer.kind = "fault"
     THEN DraftRaised(FaultRaised(answer.fault, "LLM generation timeout"))
     ELSE AfterDraft(IF client THEN Scrub(answer.content) ELSE answer.content)
  /\ UNCHANGED <<client, endpoint, diagram_type, original_prompt, validator_vars, gather_vars>>

\* A corrector that, instead of looping, starts over on every output the
\* validator rejects: validate_and_correct calling itself.
_get_llm_correction_restarting(answer) ==
  /\ pc = "_get_llm_correction"
  /\ answer \in DraftAnswers(llm_calls[Len(llm_calls)].invalid_mermaid)
  /\ IF answer.kind = "fault"
     THEN /\ llm_results' =
               Append(llm_results,
                      [kind |-> "raised",
                       raised |-> FaultRaised(answer.fault,
                                              "Mermaid correction timeout")])
          /\ NextAttempt(current_mermaid, error_message)
          /\ UNCHANGED <<validations, mermaid_code>>
     ELSE LET corrected_mermaid ==
                IF client THEN Scrub(answer.content) ELSE answer.content
          IN  IF Validate(corrected_mermaid, diagram_type).is_valid
              THEN /\ llm_results' =
                        Append(llm_results,
                               [kind |-> "returned", text |-> corrected_mermaid])
                   /\ validations' = validations + 1
                   /\ EndRequest(ReturnCorrected(corrected_mermaid))
                   /\ UNCHANGED <<current_mermaid, error_message, attempt,
                                  llm_calls, mermaid_code>>
              ELSE EnterCorrector(corrected_mermaid)
  /\ UNCHANGED <<client, endpoint, diagram_type, original_prompt, draft,
                 validator_vars, gather_vars>>

\* A loop without the "except Exception": what the correction call raises
\* ends the run.
_get_llm_correction_surfacing(answer) ==
  /\ pc = "_get_llm_correction"
  /\ answer \in DraftAnswers(llm_calls[Len(llm_calls)].invalid_mermaid)
  /\ IF answer.kind = "fault"
     THEN /\ llm_results' =
               Append(llm_results,
                      [kind |-> "raised",
                       raised |-> FaultRaised(answer.fault,
                                              "Mermaid correction timeout")])
          /\ EndRequest(FaultRaised(answer.fault, "Mermaid correction timeout"))
          /\ UNCHANGED <<current_mermaid, error_message, attempt, llm_calls,
                         validations>>
     ELSE LET corrected_mermaid ==
                IF client THEN Scrub(answer.content) ELSE answer.content
              v == Validate(corrected_mermaid, diagram_type)
          IN  /\ llm_results' =
                   Append(llm_results,
                          [kind |-> "returned", text |-> corrected_mermaid])
              /\ validations' = validations + 1
              /\ IF v.is_valid
                 THEN /\ EndRequest(ReturnCorrected(corrected_mermaid))
                      /\ UNCHANGED <<current_mermaid, error_message, attempt,
                                     llm_calls>>
                 ELSE NextAttempt(corrected_mermaid, v.error_message)
  /\ UNCHANGED <<client, endpoint, diagram_type, original_prompt, draft,
                 mermaid_code, validator_vars, gather_vars>>

\* _get_llm_correction returns or raises inside the try of the loop; without
\* a client it returns invalid_mermaid.  A returned text is validated: valid,
\* it is returned with was_corrected = True; invalid, it becomes
\* current_mermaid.  An exception is caught by "except Exception: continue".
_get_llm_correction(answer) ==
  /\ pc = "_get_llm_correction"
  /\ answer \in DraftAnswers(llm_calls[Len(llm_calls)].invalid_mermaid)
  /\ IF answer.kind = "fault"
     THEN /\ llm_results' =
               Append(llm_results,
                      [kind |-> "raised",
                       raised |-> FaultRaised(answer.fault,
                                              "Mermaid correction timeout")])
          /\ NextAttempt(current_mermaid, error_message)
          /\ UNCHANGED validations
     ELSE LET corrected_mermaid ==
                IF client THEN Scrub(answer.content) ELSE answer.content
              v == Validate(corrected_mermaid, diagram_type)
          IN  /\ llm_results' =
                   Append(llm_results,
                          [kind |-> "returned", text |-> corrected_mermaid])
              /\ validations' = validations + 1
              /\ IF v.is_valid
                 THEN /\ EndRequest(ReturnCorrected(corrected_mermaid))
                      /\ UNCHANGED <<current_mermaid, error_message, attempt,
                                     llm_calls>>
                 ELSE NextAttempt(corrected_mermaid, v.error_message)
  /\ UNCHANGED <<client, endpoint, diagram_type, original_prompt, draft,
                 mermaid_code, validator_vars, gather_vars>>

\* MermaidCorrector.validate_and_correct called on its own, with any text
\* and any diagram type: from the call to the first await or the return.
validate_and_correct ==
  /\ pc = "validate_and_correct"
  /\ EnterCorrector(mermaid_code)
  /\ UNCHANGED <<client, endpoint, diagram_type, original_prompt, draft,
                 validator_vars, gather_vars>>

\* validate_mermaid run alone on a text and a diagram type, and the advisor
\* on the verdict when it is an invalid one, as the corrector calls them.
validate ==
  /\ v_verdict = NoVerdict
  /\ v_verdict' = validate_mermaid(v_mermaid_code, v_diagram_type)
  /\ v_guidance' =
       IF v_verdict'.is_valid = FALSE
       THEN _get_error_specific_guidance(v_verdict'.error_message, v_diagram_type)
       ELSE NoGuidance
  /\ UNCHANGED <<client, request_vars, flow_vars, v_mermaid_code, v_diagram_type,
                 gather_vars>>

\* The words the messages given to the advisor are made of: the words its
\* conditions look for, in lower and in upper case, and a word they do not.
MessageWords ==
  << "Invalid", "start", "Participant", "actor", "arrow", "-->", "graph",
     "flowchart", "END", "syntax", "empty", "type" >>

\* The words of a message, from the i-th on, for a choice of words.
RECURSIVE MessageOf(_, _)
MessageOf(chosen, i) ==
  IF i > Len(MessageWords) THEN ""
  ELSE IF i \in chosen THEN MessageWords[i] \o " " \o MessageOf(chosen, i + 1)
  ELSE MessageOf(chosen, i + 1)

\* The error messages the advisor is called with: up to MaxWords of the
\* words, in their order.
MaxWords == 3

AdvisorMessages ==
  { MessageOf(chosen, 1) :
      chosen \in { c \in SUBSET (1 .. Len(MessageWords)) : Cardinality(c) <= MaxWords } }

\* The diagram types the advisor is called with.
AdvisorTypes == {"sequence", "component"} \cup UnsupportedTypes

\* MermaidCorrector._get_error_specific_guidance called on its own.
advise ==
  /\ pc = "_get_error_specific_guidance"
  /\ v_guidance' = _get_error_specific_guidance(error_message, diagram_type)
  /\ pc' = "done"
  /\ UNCHANGED <<client, request_vars, original_prompt, draft, mermaid_code,
                 current_mermaid, error_message, attempt, llm_calls, llm_results,
                 validations, outcome, v_mermaid_code, v_diagram_type, v_verdict,
                 gather_vars>>

(***************************************************************************)
(* POST /query with several diagram types: one generate_with_validation    *)
(* task per type, awaited together by asyncio.gather.  Each task has the   *)
(* locals of its own calls; the tasks take their steps in any order.       *)
(***************************************************************************)

\* req.diagram_types of the requests with several types.
GatherRequests == { <<"sequence", "component">>, <<"sequence", "sequence">> }

\* What the oracle calls of these requests come back with.
GatherAnswers ==
  [kind : {"content"},
   content : { "sequenceDiagram\nA->>B: hi",
               Fence \o "\nflowchart TD\nA-->B\n" \o Fence,
               "" }] \cup
  [kind : {"fault"}, fault : {"timeout"}]

\* A task as asyncio.gather gets it: generate_with_validation about to run.
NewTask(type) ==
  [ diagram_type    |-> type,
    pc              |-> "generate",
    draft           |-> NoDraft,
    mermaid_code    |-> "",
    current_mermaid |-> "",
    error_message   |-> None,
    attempt         |-> 0,
    llm_calls       |-> <<>>,
    llm_results     |-> <<>>,
    outcome         |-> NoOutcome ]

\* The task ended with out.
TaskEnded(task, out) == [task EXCEPT !.pc = "done", !.outcome = out]

\* A counter kept on the corrector object instead of in the call: every
\* task reads the attempts of all of them.
shared_attempt(ts, i) ==
  LET Sum[k \in 0 .. Len(ts)] == IF k = 0 THEN 0 ELSE Sum[k - 1] + ts[k].attempt
  IN  Sum[Len(ts)]

\* The loop variable attempt of the validate_and_correct call of task i.
task_attempt(ts, i) == ts[i].attempt

\* validate_and_correct in task i, from its call to its first await or return.
TaskEnterCorrector(ts, i, raw_mermaid) ==
  LET v == Validate(raw_mermaid, ts[i].diagram_type)
      entered == [ts[i] EXCEPT !.mermaid_code = raw_mermaid]
  IN  IF v.is_valid
      THEN TaskEnded(entered, ReturnUnchanged(raw_mermaid))
      ELSE [entered EXCEPT !.current_mermaid = raw_mermaid,
                           !.error_message = v.error_message,
                           !.llm_calls = <<LlmCall(raw_mermaid, v.error_message)>>,
                           !.pc = "_get_llm_correction"]

\* The end of a loop iteration of task i that did not return.
TaskNextAttempt(ts, i, text, message) ==
  LET held == [ts[i] EXCEPT !.current_mermaid = text, !.error_message = message]
  IN  IF task_attempt(ts, i) + 1 < max_retries
      THEN [held EXCEPT !.attempt = @ + 1,
                        !.llm_calls = Append(@, LlmCall(text, message))]
      ELSE TaskEnded(held, Exhausted(message))

\* The generate call of task i came back.
TaskAfterGenerate(ts, i, answer) ==
  LET got == [ts EXCEPT ![i].draft = answer]
  IN  IF answer.kind = "fault"
      THEN TaskEnded(got[i], FaultRaised(answer.fault, "LLM generation timeout"))
      ELSE TaskEnterCorrector(got, i, IF client THEN Scrub(answer.content)
                                      ELSE answer.content)

\* The correction call of task i came back.
TaskAfterCorrection(ts, i, answer) ==
  IF answer.kind = "fault"
  THEN TaskNextAttempt(
         [ts EXCEPT ![i].llm_results =
            Append(@, [kind |-> "raised",
                       raised |-> FaultRaised(answer.fault,
                                              "Mermaid correction timeout")])],
         i, ts[i].current_mermaid, ts[i].error_message)
  ELSE LET corrected_mermaid ==
             IF client THEN Scrub(answer.content) ELSE answer.content
           v == Validate(corrected_mermaid, ts[i].diagram_type)
           got == [ts EXCEPT ![i].llm_results =
                     Append(@, [kind |-> "returned", text |-> corrected_mermaid])]
       IN  IF v.is_valid
           THEN TaskEnded(got[i], ReturnCorrected(corrected_mermaid))
           ELSE TaskNextAttempt(got, i, corrected_mermaid, v.error_message)

\* {t: out for t, out in zip(req.diagram_types, outputs)}
ZipDiagrams(ts) ==
  [ t \in { ts[i].diagram_type : i \in DOMAIN ts } |->
      ts[Max({ i \in DOMAIN ts : ts[i].diagram_type = t })].outcome.text ]

\* A fan-out that waits for every task and answers 200 with the outputs of
\* the tasks that returned.
GatherResponsePartial(before, ts) ==
  IF before # NoResponse THEN before
  ELSE IF \E i \in DOMAIN ts : ts[i].outcome.kind = "none" THEN NoResponse
  ELSE LET done == { i \in DOMAIN ts : ts[i].outcome.kind = "returned" }
       IN  [status_code |-> 200,
            diagrams |->
              [ t \in { ts[i].diagram_type : i \in done } |->
                  ts[Max({ i \in done : ts[i].diagram_type = t })].outcome.text ]]

\* query around asyncio.gather: the first task that raises ends the await
\* with its exception, and the others go on running; when all have
\* returned, the outputs are zipped into the response.
GatherResponse(before, ts) ==
  IF before # NoResponse THEN before
  ELSE IF \E i \in DOMAIN ts : ts[i].outcome.kind = "raised"
       THEN [status_code |->
               ErrorStatus(ts[CHOOSE i \in DOMAIN ts :
                                ts[i].outcome.kind = "raised"].outcome)]
  ELSE IF \A i \in DOMAIN ts : ts[i].outcome.kind = "returned"
       THEN [status_code |-> 200, diagrams |-> ZipDiagrams(ts)]
       ELSE NoResponse

\* A step of task i: the call it awaits comes back and the task runs on to
\* its next await or to its end.
TaskStep(i, after) ==
  /\ tasks' = [tasks EXCEPT ![i] = after]
  /\ g_response' = GatherResponse(g_response, tasks')
  /\ UNCHANGED <<client, request_vars, flow_vars, validator_vars>>

\* What the awaited call of a task comes back with.
TaskAnswers(fallback) ==
  IF client THEN GatherAnswers ELSE {[kind |-> "content", content |-> fallback]}

task_generate(i, answer) ==
  /\ i \in DOMAIN tasks
  /\ tasks[i].pc = "generate"
  /\ answer \in TaskAnswers(stub_mermaid(ALLOWED_DIAGRAM_TYPES[tasks[i].diagram_type]))
  /\ TaskStep(i, TaskAfterGenerate(tasks, i, answer))

task_correction(i, answer) ==
  /\ i \in DOMAIN tasks
  /\ tasks[i].pc = "_get_llm_correction"
  /\ answer \in TaskAnswers(tasks[i].llm_calls[Len(tasks[i].llm_calls)].invalid_mermaid)
  /\ TaskStep(i, TaskAfterCorrection(tasks, i, answer))

(***************************************************************************)
(* A chat session: POST /chat/start with several diagram types, its        *)
(* generate_with_validation tasks awaited together, and then requests      *)
(* POST /chat/{id}/message with several target diagrams, edited one after  *)
(* the other.  The flows of the request that is running are the tasks.     *)
(***************************************************************************)

\* req.target_diagrams of the message requests: both diagrams of a session,
\* a type the session may not hold, and a type named twice.
MessageTargets ==
  { <<"sequence", "component">>, <<"gantt", "sequence">>,
    <<"sequence", "sequence">> }

\* The flow of one target of send_message: edit_diagram_with_validation
\* about to run on current_diagrams[diagram_type].
NewEdit(type, current_diagram) ==
  [ diagram_type    |-> type,
    current_diagram |-> current_diagram,
    pc              |-> "edit_diagram",
    draft           |-> NoDraft,
    mermaid_code    |-> "",
    current_mermaid |-> "",
    error_message   |-> None,
    attempt         |-> 0,
    llm_calls       |-> <<>>,
    llm_results     |-> <<>>,
    outcome         |-> NoOutcome ]

\* No task is running.
TasksEnded(ts) == \A i \in DOMAIN ts : ts[i].pc = "done"

\* start_chat, up to asyncio.gather: one task per requested type.
chat_start(types) ==
  /\ endpoint = "none"
  /\ types \in GatherRequests
  /\ endpoint' = "start_chat"
  /\ tasks' = [ i \in DOMAIN types |-> NewTask(types[i]) ]
  /\ g_response' = NoResponse
  /\ UNCHANGED <<client, db, diagram_type, response, flow_vars, validator_vars>>

\* A start_chat that stores a session with the diagrams it has as soon as
\* no task is running, whether or not some task has raised.
StartChatStepPartial(i, after) ==
  /\ tasks' = [tasks EXCEPT ![i] = after]
  /\ g_response' = GatherResponse(g_response, tasks')
  /\ db' = LET done == { j \in DOMAIN tasks' :
                           tasks'[j].outcome.kind = "returned" }
           IN  IF ~db.session /\ TasksEnded(tasks') /\ done # {}
               THEN create_chat_session(
                      [ t \in { tasks'[j].diagram_type : j \in done } |->
                          tasks'[Max({ j \in done :
                                         tasks'[j].diagram_type = t })]
                            .outcome.text ])
               ELSE db
  /\ UNCHANGED <<client, endpoint, diagram_type, response, flow_vars,
                 validator_vars>>

\* A step of task i of start_chat.  When the last task has returned and
\* none has raised, the outputs are zipped and create_chat_session stores
\* the session; the first exception ends the handler and nothing is stored.
StartChatStep(i, after) ==
  /\ tasks' = [tasks EXCEPT ![i] = after]
  /\ g_response' = GatherResponse(g_response, tasks')
  /\ db' = IF g_response = NoResponse /\ g_response'.status_code = 200
           THEN create_chat_session(ZipDiagrams(tasks'))
           ELSE db
  /\ UNCHANGED <<client, endpoint, diagram_type, response, flow_vars,
                 validator_vars>>

chat_generate(i, answer) ==
  /\ endpoint = "start_chat"
  /\ i \in DOMAIN tasks
  /\ tasks[i].pc = "generate"
  /\ answer \in TaskAnswers(stub_mermaid(ALLOWED_DIAGRAM_TYPES[tasks[i].diagram_type]))
  /\ StartChatStep(i, TaskAfterGenerate(tasks, i, answer))

chat_generate_correction(i, answer) ==
  /\ endpoint = "start_chat"
  /\ i \in DOMAIN tasks
  /\ tasks[i].pc = "_get_llm_correction"
  /\ answer \in TaskAnswers(tasks[i].llm_calls[Len(tasks[i].llm_calls)].invalid_mermaid)
  /\ StartChatStep(i, TaskAfterCorrection(tasks, i, answer))

\* A loop that reports, for an edit that raised, the draft the edit was
\* working on.
UpdatedDiagramsDraft(ts) ==
  [ t \in { ts[i].diagram_type : i \in DOMAIN ts } |->
      LET last == ts[Max({ i \in DOMAIN ts : ts[i].diagram_type = t })]
      IN  IF last.outcome.kind = "returned" THEN last.outcome.text
          ELSE last.mermaid_code ]

\* updated_diagrams at the end of the loop of send_message: for each target
\* the text its edit returned, or current_diagram when the edit raised.
UpdatedDiagrams(ts) ==
  [ t \in { ts[i].diagram_type : i \in DOMAIN ts } |->
      LET last == ts[Max({ i \in DOMAIN ts : ts[i].diagram_type = t })]
      IN  IF last.outcome.kind = "returned" THEN last.outcome.text
          ELSE last.current_diagram ]

\* send_message, up to the first edit it awaits: 404 without a session;
\* else the user message is stored, the diagrams are read, and the targets
\* the session holds are edited in turn.  Without such a target the handler
\* ends at once.
chat_message(targets) ==
  /\ endpoint \in {"start_chat", "send_message"}
  /\ g_response # NoResponse
  /\ TasksEnded(tasks)
  /\ Len(db.messages) < 1 + 2 * MaxMessages
  /\ targets \in MessageTargets
  /\ endpoint' = "send_message"
  /\ IF ~db.session
     THEN /\ g_response' = [status_code |-> 404]
          /\ tasks' = <<>>
          /\ UNCHANGED db
     ELSE LET current_diagrams == get_session_diagrams(db)
              Held(t) == t \in DOMAIN current_diagrams
              edits == SelectSeq(targets, Held)
          IN  /\ tasks' = [ i \in DOMAIN edits |->
                              NewEdit(edits[i], current_diagrams[edits[i]]) ]
              /\ IF edits = <<>>
                 THEN /\ db' = add_message(add_message(db, "user"), "assistant")
                      /\ g_response' =
                           [status_code |-> 200, updated_diagrams |-> <<>>,
                            all_diagrams |-> current_diagrams]
                 ELSE /\ db' = add_message(db, "user")
                      /\ g_response' = NoResponse
  /\ UNCHANGED <<client, diagram_type, response, flow_vars, validator_vars>>

\* A step of the edit of target i.  When the edit returns, update_diagram
\* stores its text; when it raises, the diagram is kept.  After the last
\* target the assistant message is stored and the response is made.
MessageStep(i, after) ==
  LET ts == [tasks EXCEPT ![i] = after]
      stored == IF after.pc = "done" /\ after.outcome.kind = "returned"
                THEN update_diagram(db, after.diagram_type, after.outcome.text)
                ELSE db
  IN  /\ tasks' = ts
      /\ db' = IF TasksEnded(ts) THEN add_message(stored, "assistant") ELSE stored
      /\ g_response' =
           IF TasksEnded(ts)
           THEN [status_code |-> 200, updated_diagrams |-> UpdatedDiagrams(ts),
                 all_diagrams |-> get_session_diagrams(stored)]
           ELSE NoResponse
      /\ UNCHANGED <<client, endpoint, diagram_type, response, flow_vars,
                     validator_vars>>

\* The target whose edit is awaited: the first one that has not ended.
EditAwaited(i) ==
  /\ endpoint = "send_message"
  /\ i \in DOMAIN tasks
  /\ tasks[i].pc # "done"
  /\ \A j \in 1 .. i - 1 : tasks[j].pc = "done"

chat_edit(i, answer) ==
  /\ EditAwaited(i)
  /\ tasks[i].pc = "edit_diagram"
  /\ answer \in TaskAnswers(tasks[i].current_diagram)
  /\ MessageStep(i, TaskAfterGenerate(tasks, i, answer))

chat_edit_correction(i, answer) ==
  /\ EditAwaited(i)
  /\ tasks[i].pc = "_get_llm_correction"
  /\ answer \in TaskAnswers(tasks[i].llm_calls[Len(tasks[i].llm_calls)].invalid_mermaid)
  /\ MessageStep(i, TaskAfterCorrection(tasks, i, answer))

(***************************************************************************)
(* The specifications.                                                     *)
(***************************************************************************)

\* After construction: no request yet, no session.
InitFlow ==
  /\ client \in BOOLEAN
  /\ db = EmptyDb
  /\ endpoint = "none"
  /\ diagram_type = "none"
  /\ original_prompt = ""
  /\ pc = "idle"
  /\ draft = NoDraft
  /\ mermaid_code = ""
  /\ current_mermaid = ""
  /\ error_message = None
  /\ attempt = 0
  /\ llm_calls = <<>>
  /\ llm_results = <<>>
  /\ validations = 0
  /\ outcome = NoOutcome
  /\ response = NoResponse

Init ==
  /\ InitFlow
  /\ v_mermaid_code = ""
  /\ v_diagram_type = "none"
  /\ v_verdict = NoVerdict
  /\ v_guidance = NoGuidance
  /\ tasks = <<>>
  /\ g_response = NoResponse

Next ==
  \/ \E t \in DiagramTypes : query(t)
  \/ \E t \in DiagramTypes : start_chat(t)
  \/ \E t \in DiagramTypes, enhance \in {"raises", "nothing", "guidance"} :
       send_message(t, enhance)
  \/ \E answer \in OracleAnswers \cup [kind : {"content"}, content : FlowTexts] :
       \/ generate(answer)
       \/ edit_diagram(answer)
       \/ _get_llm_correction(answer)

\* The requests of one client.
Spec == Init /\ [][Next]_vars

InitValidator ==
  /\ InitFlow
  /\ client = TRUE
  /\ \/ /\ v_diagram_type \in DiagramTypes
        /\ v_mermaid_code \in ValidatorTexts \cup BlockTexts \cup WrongStartTexts
                              \cup PermissiveTexts
     \/ /\ v_diagram_type \in UnsupportedTypes
        /\ v_mermaid_code \in BlockTexts \cup {"", " \t\n \t"}
  /\ v_verdict = NoVerdict
  /\ v_guidance = NoGuidance
  /\ tasks = <<>>
  /\ g_response = NoResponse

NextValidator == validate

\* A call of validate_and_correct about to be made: its arguments are chosen.
InitCorrector ==
  /\ client \in BOOLEAN
  /\ db = EmptyDb
  /\ endpoint = "validate_and_correct"
  /\ diagram_type \in DiagramTypes \cup UnsupportedTypes
  /\ original_prompt = BasePrompt
  /\ pc = "validate_and_correct"
  /\ draft = NoDraft
  /\ mermaid_code \in FlowTexts
  /\ current_mermaid = ""
  /\ error_message = None
  /\ attempt = 0
  /\ llm_calls = <<>>
  /\ llm_results = <<>>
  /\ validations = 0
  /\ outcome = NoOutcome
  /\ response = NoResponse
  /\ v_mermaid_code = ""
  /\ v_diagram_type = "none"
  /\ v_verdict = NoVerdict
  /\ v_guidance = NoGuidance
  /\ tasks = <<>>
  /\ g_response = NoResponse

NextCorrector ==
  \/ validate_and_correct
  \/ \E answer \in OracleAnswers \cup [kind : {"content"}, content : FlowTexts] :
       _get_llm_correction(answer)

\* _get_error_specific_guidance about to be called with a message and a
\* diagram type.
InitAdvisor ==
  /\ client = TRUE
  /\ db = EmptyDb
  /\ endpoint = "none"
  /\ diagram_type \in AdvisorTypes
  /\ original_prompt = BasePrompt
  /\ pc = "_get_error_specific_guidance"
  /\ draft = NoDraft
  /\ mermaid_code = ""
  /\ current_mermaid = ""
  /\ error_message \in AdvisorMessages
  /\ attempt = 0
  /\ llm_calls = <<>>
  /\ llm_results = <<>>
  /\ validations = 0
  /\ outcome = NoOutcome
  /\ response = NoResponse
  /\ v_mermaid_code = ""
  /\ v_diagram_type = "none"
  /\ v_verdict = NoVerdict
  /\ v_guidance = NoGuidance
  /\ tasks = <<>>
  /\ g_response = NoResponse

NextAdvisor == advise

\* POST /query with several types has been received: the tasks are created.
InitGather ==
  /\ InitFlow
  /\ v_mermaid_code = ""
  /\ v_diagram_type = "none"
  /\ v_verdict = NoVerdict
  /\ v_guidance = NoGuidance
  /\ \E types \in GatherRequests :
       tasks = [ i \in DOMAIN types |-> NewTask(types[i]) ]
  /\ g_response = NoResponse

NextGather ==
  \E i \in 1 .. Max({ Len(types) : types \in GatherRequests }) :
    \E answer \in GatherAnswers \cup [kind : {"content"}, content : FlowTexts] :
      \/ task_generate(i, answer)
      \/ task_correction(i, answer)

\* One /query request with several types, its tasks interleaved at will.
SpecGather == InitGather /\ [][NextGather]_vars

\* One run of validate_and_correct on every text of FlowTexts and every
\* diagram type, supported or not.
SpecCorrector == InitCorrector /\ [][NextCorrector]_vars

NextSession ==
  \/ \E types \in GatherRequests : chat_start(types)
  \/ \E targets \in MessageTargets : chat_message(targets)
  \/ \E i \in 1 .. 2 :
       \E answer \in GatherAnswers \cup [kind : {"content"}, content : FlowTexts] :
         \/ chat_generate(i, answer)
         \/ chat_generate_correction(i, answer)
         \/ chat_edit(i, answer)
         \/ chat_edit_correction(i, answer)

\* A chat session from its start on: no request yet, no session; then
\* start_chat and the message requests, one request at a time, the tasks of
\* start_chat interleaved at will.
SpecSession == Init /\ [][NextSession]_vars

\* _get_error_specific_guidance on every message of AdvisorMessages.
SpecAdvisor == InitAdvisor /\ [][NextAdvisor]_vars

\* validate_mermaid on every text of ValidatorTexts and every diagram type.
SpecValidator == InitValidator /\ [][NextValidator]_vars

(***************************************************************************)
(* Properties of validate_and_correct, checked on Spec.                    *)
(***************************************************************************)

\* The run of validate_and_correct of the current flow has started.
RunStarted == validations >= 1

\* The k-th correction call has come back with a text the validator accepts.
IsValidOutput(k) ==
  /\ llm_results[k].kind = "returned"
  /\ Validate(llm_results[k].text, diagram_type).is_valid

\* The k-th correction call has come back with a text the validator rejects.
IsInvalidOutput(k) ==
  /\ llm_results[k].kind = "returned"
  /\ ~Validate(llm_results[k].text, diagram_type).is_valid

\* The k-th correction call timed out.
IsTimeout(k) ==
  /\ llm_results[k].kind = "raised"
  /\ llm_results[k].raised.status_code = 504

\* The flow ended by raising HTTPException(status).
RaisedStatus(status) ==
  /\ outcome.kind = "raised"
  /\ outcome.exception = "HTTPException"
  /\ outcome.status_code = status

\* C1: for every diagram type, when the text handed to validate_and_correct
\* is one validate_mermaid accepts, no correction call is made and the run
\* returns exactly that text with was_corrected = False.
C1_ValidInputUnchanged ==
  (RunStarted /\ Validate(mermaid_code, diagram_type).is_valid)
    => /\ pc = "done"
       /\ llm_calls = <<>>
       /\ llm_results = <<>>
       /\ validations = 1
       /\ outcome = Returned(mermaid_code, FALSE)

\* A draft of the model (not the stub) that was valid at once.
C1_Witness ==
  /\ client
  /\ pc = "done"
  /\ RunStarted
  /\ Validate(mermaid_code, diagram_type).is_valid
  /\ outcome = Returned(mermaid_code, FALSE)
  /\ llm_calls = <<>>

\* C2: the run ends with HTTPException(422) only after exactly max_retries = 3
\* correction calls, all of them answered; and a run that made correction
\* calls and has ended without any output that validates ended with 422.
C2_FailedOnlyAfterBudget ==
  /\ RaisedStatus(422)
       => /\ Len(llm_calls) = max_retries
          /\ Len(llm_results) = max_retries
          /\ \A k \in DOMAIN llm_results : ~IsValidOutput(k)
  /\ (pc = "done" /\ llm_calls # <<>>
        /\ \A k \in DOMAIN llm_results : ~IsValidOutput(k))
       => /\ RaisedStatus(422)
          /\ Len(llm_calls) = max_retries

\* Three outputs, none of them valid: the run ended with 422.
C2_Witness ==
  /\ pc = "done"
  /\ RaisedStatus(422)
  /\ Len(llm_calls) = 3
  /\ \A k \in 1..3 : IsInvalidOutput(k)

\* C3: in every state the number of correction calls made so far is at most
\* max_retries = 3, whatever the calls returned or raised.
C3_CallsWithinBudget ==
  /\ Len(llm_calls) <= max_retries
  /\ Len(llm_results) <= Len(llm_calls)

\* The budget is used up by calls that raised as well as calls that returned.
C3_Witness ==
  /\ Len(llm_calls) = max_retries
  /\ Len(llm_results) = max_retries
  /\ \E k \in DOMAIN llm_results : llm_results[k].kind = "raised"
  /\ \E k \in DOMAIN llm_results : llm_results[k].kind = "returned"

\* C4: when the correction call of an attempt times out, the run ends at
\* once with the timeout (504) as its outcome: no further correction call is
\* made and the outcome is never the exhaustion (422).
C4_TimeoutEndsRun ==
  \A k \in DOMAIN llm_results :
    IsTimeout(k)
      => /\ pc = "done"
         /\ Len(llm_calls) = k
         /\ RaisedStatus(504)

\* C5: when the k-th correction call returns the first text that validates,
\* the run ends there: k calls were made, none later, and the run returns
\* exactly that text with was_corrected = True.
C5_FirstValidOutputReturned ==
  \A k \in DOMAIN llm_results :
    IsValidOutput(k)
      => /\ pc = "done"
         /\ k <= max_retries
         /\ Len(llm_results) = k
         /\ Len(llm_calls) = k
         /\ outcome = Returned(llm_results[k].text, TRUE)
         /\ ~Validate(mermaid_code, diagram_type).is_valid

\* Two outputs that fail and a third that validates.
C5_Witness ==
  /\ pc = "done"
  /\ Len(llm_results) = 3
  /\ IsInvalidOutput(1)
  /\ IsInvalidOutput(2)
  /\ IsValidOutput(3)
  /\ outcome = Returned(llm_results[3].text, TRUE)

\* C6: the first correction call is given the original invalid text and, for
\* every N > 1, the N-th call is given exactly the output of call N-1.
C6_AttemptsChain ==
  \A n \in DOMAIN llm_calls :
    IF n = 1
    THEN llm_calls[n].invalid_mermaid = mermaid_code
    ELSE /\ llm_results[n - 1].kind = "returned"
         /\ llm_calls[n].invalid_mermaid = llm_results[n - 1].text

\* C7: a text that generate_with_validation or edit_diagram_with_validation
\* returns has been validated at least once and validate_mermaid accepts it
\* for the diagram type of the flow.
C7_ReturnedTextValidated ==
  outcome.kind = "returned"
    => /\ validations >= 1
       /\ validate_mermaid(outcome.text, diagram_type).is_valid

\* An edit that returned a corrected text.
C7_Witness ==
  /\ endpoint = "send_message"
  /\ pc = "done"
  /\ outcome.kind = "returned"
  /\ outcome.was_corrected
  /\ validations = 2

(***************************************************************************)
(* Properties of the route handlers, checked on Spec.                      *)
(***************************************************************************)

\* The handler has answered a request whose flow ended by raising
\* HTTPException(status).
AnsweredFlowRaising(status) == pc = "done" /\ RaisedStatus(status)

IsBlank(s) == \A i \in 1..Len(s) : Char(s, i) \in Whitespace

\* The verdict of validate_mermaid is in.
Validated == v_verdict # NoVerdict

\* C9: for every diagram type, the empty string and a text of whitespace and
\* newlines only are invalid with the empty-input message, without a check of
\* the start line or of a body line.
C9_EmptyInputRejected ==
  (Validated /\ IsBlank(v_mermaid_code))
    => /\ v_verdict.is_valid = FALSE
       /\ v_verdict.error_message = "Empty Mermaid code provided"
       /\ ~v_verdict.start_checked
       /\ v_verdict.examined = 0

\* A text of blanks and a newline, not the empty string.
C9_Witness ==
  /\ Validated
  /\ IsBlank(v_mermaid_code)
  /\ Contains(v_mermaid_code, "\n")
  /\ Contains(v_mermaid_code, " ")
  /\ v_verdict.error_message = "Empty Mermaid code provided"

\* The name of a grammar in its syntax messages.
GrammarName(validation_type) ==
  CASE validation_type = "sequenceDiagram" -> "sequence diagram"
    [] validation_type = "flowchart"       -> "flowchart"
    [] validation_type = "stateDiagram-v2" -> "state diagram"
    [] validation_type = "classDiagram"    -> "class diagram"
    [] validation_type = "erDiagram"       -> "ER diagram"
    [] validation_type = "gantt"           -> "Gantt diagram"

\* The loop of the grammar rejects the body line when it comes to it.
Rejected(validation_type, line) ==
  LET patterns == diagram_patterns[validation_type]
  IN  CASE validation_type = "sequenceDiagram" -> ~SequenceLineMatches(line, patterns)
        [] validation_type = "flowchart" ->
             /\ ~re_match(patterns.subgraph, line)
             /\ ~re_match(patterns.end, line)
             /\ ~FlowchartLineMatches(line, patterns)
        [] validation_type = "stateDiagram-v2" -> ~StateLineMatches(line, patterns)
        [] validation_type = "classDiagram"    -> ~ClassLineMatches(line, patterns)
        [] validation_type = "erDiagram"       -> ~ErLineMatches(line, patterns)
        [] validation_type = "gantt"           -> ~GanttLineMatches(line, patterns)

\* The lines of the text under validation, its body, and the positions of
\* the body lines its grammar rejects.
TextLines == LinesOf(v_mermaid_code)
TextBody == Tail(TextLines)
TextGrammar == validation_type_of(v_diagram_type)
RejectedAt == { i \in DOMAIN TextBody : Rejected(TextGrammar, TextBody[i]) }

\* The text has a correct start line and at least two rejected body lines.
TwoDefects ==
  /\ Validated
  /\ TextGrammar \in DOMAIN diagram_patterns
  /\ TextLines # <<>>
  /\ re_match(diagram_patterns[TextGrammar].start, TextLines[1])
  /\ Cardinality(RejectedAt) >= 2

\* C10: for every diagram type, when the start line is correct and the body
\* has rejected lines at positions i < j, the verdict is invalid, its message
\* names the line at the earliest such position and no later rejected line,
\* and no line after that position has been examined.
C10_FirstFailureReported ==
  TwoDefects
    => LET first == Min(RejectedAt)
       IN  /\ v_verdict.is_valid = FALSE
           /\ v_verdict.error_message
                = SyntaxMessage(GrammarName(TextGrammar), TextBody[first])
           /\ v_verdict.examined = first
           /\ \A j \in RejectedAt :
                TextBody[j] # TextBody[first]
                  => v_verdict.error_message
                       # SyntaxMessage(GrammarName(TextGrammar), TextBody[j])

\* A sequence diagram whose two body lines are both rejected, and differ.
C10_Witness ==
  /\ TwoDefects
  /\ v_diagram_type = "sequence"
  /\ RejectedAt = {1, 2}
  /\ TextBody[1] # TextBody[2]
  /\ v_verdict.error_message = SyntaxMessage("sequence diagram", TextBody[1])

(***************************************************************************)
(* Blocks of the flowchart grammar, checked on SpecValidator.              *)
(***************************************************************************)

\* The text under validation is handled by the flowchart grammar and its
\* start line is correct.
FlowchartWalked ==
  /\ Validated
  /\ TextGrammar = "flowchart"
  /\ TextLines # <<>>
  /\ re_match(FlowchartPatterns.start, TextLines[1])

\* The body lines that open a block and those that close one.
OpensAt == { i \in DOMAIN TextBody : re_match(FlowchartPatterns.subgraph, TextBody[i]) }
ClosesAt ==
  { i \in DOMAIN TextBody :
      /\ ~re_match(FlowchartPatterns.subgraph, TextBody[i])
      /\ re_match(FlowchartPatterns.end, TextBody[i]) }

\* The block depth after the first n body lines.
DepthAfter(n) ==
  Cardinality({ i \in OpensAt : i <= n }) - Cardinality({ i \in ClosesAt : i <= n })

UnmatchedMessage == "Unmatched subgraph blocks (missing 'end' statements)"

\* C11: a flowchart text whose walk reaches the end (correct start line, no
\* rejected body line) with a block depth other than 0 is invalid with the
\* unmatched-blocks message.
C11_UnmatchedBlockRejected ==
  (FlowchartWalked /\ RejectedAt = {} /\ DepthAfter(Len(TextBody)) # 0)
    => /\ v_verdict.is_valid = FALSE
       /\ v_verdict.error_message = UnmatchedMessage
       /\ v_verdict.examined = Len(TextBody)

\* "flowchart TD", "subgraph X", "A-->B": a block opened and never closed.
C11_Witness ==
  /\ FlowchartWalked
  /\ v_mermaid_code = "flowchart TD\nsubgraph X\nA-->B"
  /\ DepthAfter(Len(TextBody)) = 1
  /\ v_verdict.error_message = UnmatchedMessage

(***************************************************************************)
(* The diagram types and the grammars, checked on SpecValidator.           *)
(***************************************************************************)

UnsupportedMessage(t) == "Unsupported diagram type: " \o t

\* C12: for every key of ALLOWED_DIAGRAM_TYPES the validator resolves a
\* grammar of diagram_patterns, and its verdict is never the
\* unsupported-type one.
C12_NormalizationTotal ==
  (Validated /\ v_diagram_type \in DOMAIN ALLOWED_DIAGRAM_TYPES)
    => /\ validation_type_of(v_diagram_type) \in DOMAIN diagram_patterns
       /\ v_verdict.error_message # UnsupportedMessage(v_diagram_type)
       /\ ~IsBlank(v_mermaid_code) => v_verdict.start_checked

\* The alias "sequential" on a text the sequence grammar accepts.
C12_Witness ==
  /\ Validated
  /\ v_diagram_type = "sequential"
  /\ v_mermaid_code = "sequenceDiagram"
  /\ v_verdict.is_valid = TRUE

(***************************************************************************)
(* The verdict and the guidance as values, checked on SpecValidator.  No   *)
(* step of validate_mermaid can raise on a string (every index and every   *)
(* key it reads is guarded), so its result is always a verdict; the        *)
(* advisor raises when the message it is given is None.                    *)
(***************************************************************************)

\* C13: validate_mermaid returns a verdict for every text and every diagram
\* type, supported or not: valid with no message, or invalid with a message
\* that is not empty; and the advisor returns hints for every invalid
\* verdict instead of raising.
C13_VerdictAndGuidanceAreValues ==
  Validated
    => /\ v_verdict.is_valid \in BOOLEAN
       /\ v_verdict.is_valid = TRUE
            => /\ v_verdict.error_message = None
               /\ v_guidance = NoGuidance
       /\ v_verdict.is_valid = FALSE
            => /\ v_verdict.error_message # None
               /\ Len(v_verdict.error_message) > 0
               /\ v_guidance.kind = "returned"
               /\ Len(v_guidance.hints) > 0

\* An unsupported type: an invalid verdict, and the generic hints for it.
C13_Witness ==
  /\ Validated
  /\ v_diagram_type \in UnsupportedTypes
  /\ v_verdict.is_valid = FALSE
  /\ v_verdict.error_message = UnsupportedMessage(v_diagram_type)
  /\ v_guidance.kind = "returned"
  /\ Len(v_guidance.hints) = 4

(***************************************************************************)
(* Properties of one run of validate_and_correct, checked on               *)
(* SpecCorrector.                                                          *)
(***************************************************************************)

\* The run is waiting for a correction call to come back.
AwaitingCorrection == pc = "_get_llm_correction"

\* The run has ended: it returned a text or it raised.
RunEnded == pc = "done" /\ outcome.kind \in {"returned", "raised"}

\* The number of correction calls that can still come back before the run
\* has to end.
Remaining == IF pc = "done" THEN 0 ELSE max_retries - Len(llm_results)

\* C14: a run of validate_and_correct never loops forever.  While it waits
\* for a correction call it has between 1 and max_retries calls left; every
\* call that comes back, with a text or with a fault, leaves fewer or ends
\* the run; the run ends with exactly one outcome, a returned text or a
\* raised exception, and takes no step after that.
C14_RunTerminates ==
  [][ /\ AwaitingCorrection
           => /\ Remaining \in 1 .. max_retries
              /\ Remaining' < Remaining
              /\ Remaining' >= 0
              /\ AwaitingCorrection' \/ RunEnded'
      /\ pc' = "done" => RunEnded'
      /\ pc # "done" ]_vars

\* A run that ended by exhaustion, after three outputs that were all rejected.
C14_Witness ==
  /\ RunEnded
  /\ RaisedStatus(422)
  /\ Len(llm_results) = max_retries
  /\ \A k \in DOMAIN llm_results : IsInvalidOutput(k)
  /\ endpoint = "validate_and_correct"

RECURSIVE OutcomeAfter(_, _, _, _)
\* The outcome that the results from the k-th on lead to, for a loop that
\* holds the given error message: NoOutcome as long as the run goes on.
OutcomeAfter(type, message, results, k) ==
  IF k > max_retries THEN Exhausted(message)
  ELSE IF k > Len(results) THEN NoOutcome
  ELSE IF results[k].kind = "raised"
       THEN OutcomeAfter(type, message, results, k + 1)
  ELSE IF Validate(results[k].text, type).is_valid
       THEN Returned(results[k].text, TRUE)
       ELSE OutcomeAfter(type, Validate(results[k].text, type).error_message,
                         results, k + 1)

\* The outcome as a function of the diagram type, the text given to the run
\* and what the correction calls gave, in order.
OutcomeOf(type, text, results) ==
  IF Validate(text, type).is_valid THEN Returned(text, FALSE)
  ELSE OutcomeAfter(type, Validate(text, type).error_message, results, 1)

\* C15: the outcome of a run is fixed by its diagram type, its input text
\* and the sequence of texts and faults the correction calls gave: two runs
\* that agree on these end alike, with the same returned text or the same
\* failure message, and neither has ended while the other goes on.
C15_OutcomeDetermined ==
  RunStarted => outcome = OutcomeOf(diagram_type, mermaid_code, llm_results)

\* A run that met a fault, a rejected output and then an accepted one.
C15_Witness ==
  /\ RunEnded
  /\ Len(llm_results) = 3
  /\ llm_results[1].kind = "raised"
  /\ IsInvalidOutput(2)
  /\ IsValidOutput(3)
  /\ outcome = Returned(llm_results[3].text, TRUE)
  /\ endpoint = "validate_and_correct"

(***************************************************************************)
(* The flows of one request, checked on SpecGather.                        *)
(***************************************************************************)

\* The number of correction calls a run has made, as a function of its
\* diagram type, its input text and what its own calls gave.
CallsOf(type, text, results) ==
  IF Validate(text, type).is_valid THEN 0
  ELSE IF OutcomeOf(type, text, results) = NoOutcome THEN Len(results) + 1
  ELSE Len(results)

\* C16: under every interleaving of the flows of one request, the outcome of
\* each flow and the number of its correction calls are fixed by its own
\* diagram type, its own draft and what its own correction calls gave,
\* wherever the other flows are.
C16_FlowsIndependent ==
  \A i \in DOMAIN tasks :
    LET task == tasks[i]
    IN  CASE task.draft = NoDraft ->
               /\ task.pc = "generate"
               /\ task.outcome = NoOutcome
               /\ task.llm_calls = <<>>
          [] task.draft.kind = "fault" ->
               /\ task.outcome = FaultRaised(task.draft.fault, "LLM generation timeout")
               /\ task.llm_calls = <<>>
          [] task.draft.kind = "content" ->
               /\ task.outcome
                    = OutcomeOf(task.diagram_type, task.mermaid_code, task.llm_results)
               /\ Len(task.llm_calls)
                    = CallsOf(task.diagram_type, task.mermaid_code, task.llm_results)

\* Two flows of the same diagram type, both in their correction loop at the
\* same time, one two calls ahead of the other.
C16_Witness ==
  /\ Len(tasks) = 2
  /\ tasks[1].diagram_type = tasks[2].diagram_type
  /\ tasks[1].pc = "_get_llm_correction"
  /\ tasks[2].pc = "_get_llm_correction"
  /\ Len(tasks[1].llm_calls) = 3
  /\ Len(tasks[2].llm_calls) = 1
  /\ g_response = NoResponse

(***************************************************************************)
(* Closing lines of the flowchart grammar, checked on SpecValidator.       *)
(***************************************************************************)

\* The closing lines that take the block depth below zero, in a walk that
\* comes to them (no body line before them is rejected).
ClosesBelowZeroAt ==
  { i \in ClosesAt :
      /\ DepthAfter(i) < 0
      /\ \A j \in RejectedAt : j > i }

\* C17: a flowchart text with a closing line that takes the block depth
\* below zero is invalid, as "flowchart TD", "end", "subgraph X" is, the
\* numbers of opening and closing lines being equal or not.
C17_CloseBelowZeroRejected ==
  (FlowchartWalked /\ ClosesBelowZeroAt # {}) => v_verdict.is_valid = FALSE


(***************************************************************************)
(* The order of the checks of validate_mermaid, checked on SpecValidator.  *)
(***************************************************************************)

\* The first line of the text does not match the start pattern of its
\* grammar.
WrongStart ==
  /\ Validated
  /\ TextGrammar \in DOMAIN diagram_patterns
  /\ TextLines # <<>>
  /\ ~re_match(diagram_patterns[TextGrammar].start, TextLines[1])

\* C18: a text whose first line does not match the start pattern of its
\* grammar is invalid with the start reason, whatever its body holds: no
\* body line is examined and no block depth is counted.
C18_StartCheckedFirst ==
  WrongStart
    => /\ v_verdict.is_valid = FALSE
       /\ v_verdict.error_message =
            "Invalid " \o v_diagram_type \o " start. Expected pattern: "
              \o diagram_patterns[TextGrammar].start_src
       /\ v_verdict.start_checked
       /\ v_verdict.examined = 0

\* A wrong start line over a body with a rejected line and, in a flowchart,
\* an unclosed block.
C18_Witness ==
  /\ WrongStart
  /\ RejectedAt # {}
  /\ TextGrammar = "flowchart"
  /\ \E i \in DOMAIN TextBody : TextBody[i] = "subgraph X"
  /\ v_verdict.start_checked


(***************************************************************************)
(* The text and the reason the loop holds, checked on SpecCorrector.       *)
(***************************************************************************)

\* The text the loop holds after k correction calls have come back: the
\* last output the validator was given (and rejected), and the input text
\* as long as there is none.
HeldAfter(k) ==
  LET returned == { j \in 1 .. k : llm_results[j].kind = "returned" }
  IN  IF returned = {} THEN mermaid_code ELSE llm_results[Max(returned)].text

\* The validator's reason for a text.
ReasonFor(text) == Validate(text, diagram_type).error_message

\* C19: the request of attempt N carries the text the loop holds and the
\* validator's reason for that text, and the message of the 422 carries the
\* validator's reason for the last oracle output that was validated (for the
\* input text when no output was).
C19_ReasonMatchesHeldText ==
  /\ \A n \in DOMAIN llm_calls :
       /\ llm_calls[n].invalid_mermaid = HeldAfter(n - 1)
       /\ llm_calls[n].error_message = ReasonFor(HeldAfter(n - 1))
       /\ llm_calls[n].error_message # None
  /\ RaisedStatus(422)
       => /\ Len(llm_results) = max_retries
          /\ outcome.detail =
               "Failed to generate valid Mermaid diagram after 3 attempts. Last error: "
                 \o ReasonFor(HeldAfter(max_retries))

\* A run that ends with 422 after two rejected outputs with different
\* reasons, each different from the reason for the input text, and a fault:
\* the requests and the message carry three different reasons.
C19_Witness ==
  /\ RaisedStatus(422)
  /\ endpoint = "validate_and_correct"
  /\ IsInvalidOutput(1)
  /\ IsInvalidOutput(2)
  /\ llm_results[3].kind = "raised"
  /\ ReasonFor(llm_results[1].text) # ReasonFor(mermaid_code)
  /\ ReasonFor(llm_results[2].text) # ReasonFor(llm_results[1].text)
  /\ llm_calls[2].error_message = ReasonFor(llm_results[1].text)
  /\ llm_calls[3].error_message = ReasonFor(llm_results[2].text)
  /\ outcome.detail = Exhausted(ReasonFor(llm_results[2].text)).detail


(***************************************************************************)
(* A diagram type without a grammar, checked on SpecCorrector.             *)
(***************************************************************************)

\* C20: a diagram type the validator has no grammar for is a fatal defect
\* of the run that is given it: the run makes no correction call, so the
\* verdict on the type is never handed to the oracle as a reason to repair
\* the text, and the run does not end as one whose attempts were used up.
C20_UnsupportedKindIsFatal ==
  (RunStarted /\ diagram_type \in UnsupportedTypes)
    => /\ llm_calls = <<>>
       /\ ~RaisedStatus(422)


(***************************************************************************)
(* The shapes a body line is accepted by, checked on SpecValidator.        *)
(***************************************************************************)

\* The text has the start line of its grammar, so that its body is walked.
BodyWalked ==
  /\ Validated
  /\ TextGrammar \in DOMAIN diagram_patterns
  /\ TextLines # <<>>
  /\ re_match(diagram_patterns[TextGrammar].start, TextLines[1])

\* The line matches a statement shape that the registry holds for the
\* grammar: at its start for a sequence diagram, anywhere in it for the
\* others.
RegisteredShape(validation_type, line) ==
  LET patterns == diagram_patterns[validation_type]
  IN  CASE validation_type = "sequenceDiagram" ->
             \E name \in {"participant", "actor", "arrow", "note", "activate",
                          "deactivate"} : re_match(patterns[name], line)
        [] validation_type = "flowchart" ->
             \E name \in {"node", "connection", "label"} :
               re_search(patterns[name], line)
        [] validation_type = "stateDiagram-v2" ->
             \E name \in {"state", "transition"} : re_search(patterns[name], line)
        [] validation_type = "classDiagram" ->
             \E name \in {"class", "relationship"} : re_search(patterns[name], line)
        [] validation_type = "erDiagram" ->
             \E name \in {"relationship", "entity"} : re_search(patterns[name], line)
        [] validation_type = "gantt" ->
             \E name \in {"title", "section", "task"} :
               re_search(patterns[name], line)

\* The line matches a shape that is written in the walk of the grammar and
\* is no entry of the registry.  The sequence walk has none.
AdditionalShape(validation_type, line) ==
  CASE validation_type = "sequenceDiagram" -> FALSE
    [] validation_type = "flowchart" ->
         /\ re_search(W1, line)
         /\ \E mark \in {"-->", "->", "[", "("} : Find(line, mark, 1) # 0
    [] validation_type = "stateDiagram-v2" ->
         \/ re_search(Cat(<<Lit("note"), S1>>), line)
         \/ re_search(Cat(<<Lit("state"), S1, W1>>), line)
         \/ re_search(Cat(<<W1, S0, Lit("-->"), S0, W1>>), line)
         \/ re_search(Lit("[*]"), line)
         \/ re_search(Cat(<<W1, S0, Lit(":"), S0>>), line)
    [] validation_type = "classDiagram" ->
         \/ re_search(Cat(<<W1, S0, Lit("{")>>), line)
         \/ re_search(Cat(<<Opt(Cls({"+", "-", "#", "~"})), W1, Star(AnyChar)>>), line)
         \/ re_search(Lit("}"), line)
         \/ re_search(Cat(<<Lit("class"), S1, W1>>), line)
    [] validation_type = "erDiagram" ->
         \/ re_search(Cat(<<W1, S0, Lit("{")>>), line)
         \/ re_search(Lit("}"), line)
         \/ re_search(Cat(<<W1, S1, W1>>), line)
         \/ re_search(Cat(<<W1, S0, Plus(Cls({"|", "}", "{", "o", "-"})),
                            Star(AnyChar), W1>>), line)
    [] validation_type = "gantt" ->
         \/ \E word \in {"dateFormat", "axisFormat", "excludes", "todayMarker"} :
              re_search(Cat(<<Lit(word), S1>>), line)
         \/ re_search(Cat(<<W1, S0, Lit(":"), S0>>), line)

\* The body lines that neither open nor close a block.
NonStructuralAt ==
  IF TextGrammar = "flowchart"
  THEN DOMAIN TextBody \ (OpensAt \cup ClosesAt)
  ELSE DOMAIN TextBody

\* The non-structural body lines that match no shape of the registry, and
\* those that match no shape at all.
UnregisteredAt ==
  { i \in NonStructuralAt : ~RegisteredShape(TextGrammar, TextBody[i]) }
ShapelessAt ==
  { i \in UnregisteredAt : ~AdditionalShape(TextGrammar, TextBody[i]) }

\* C21 as stated: every non-structural body line of a text the validator
\* accepts matches a statement shape of the registry, a line that matches
\* none being rejected.
C21_RegisteredShapesOnly ==
  (BodyWalked /\ v_verdict.is_valid) => UnregisteredAt = {}

\* C21: a non-structural body line is accepted if and only if it matches a
\* statement shape of the registry or one of the further shapes written in
\* the walk of its grammar: the verdict carries the syntax message of the
\* first line that matches no shape, and no syntax message when there is no
\* such line.
C21_AcceptedIffSomeShape ==
  BodyWalked
    => IF ShapelessAt = {}
       THEN v_verdict.error_message \in {None, UnmatchedMessage}
       ELSE /\ v_verdict.is_valid = FALSE
            /\ v_verdict.error_message =
                 "Invalid " \o GrammarName(TextGrammar) \o " syntax: '"
                   \o TextBody[Min(ShapelessAt)] \o "'"

\* An accepted class diagram with a line that no shape of the registry
\* matches.
C21_Witness ==
  /\ BodyWalked
  /\ v_verdict.is_valid
  /\ TextGrammar = "classDiagram"
  /\ UnregisteredAt # {}
  /\ ShapelessAt = {}


(***************************************************************************)
(* The aliases of a diagram type, checked on SpecValidator.                *)
(***************************************************************************)

\* The other name of a diagram type that has two.
AliasOf ==
  ("sequential" :> "sequence") @@ ("sequence" :> "sequential") @@
  ("component" :> "flowchart") @@ ("flowchart" :> "component")

\* C22: a text is valid under "sequential" if and only if it is valid under
\* "sequence", and valid under "component" if and only if it is valid under
\* "flowchart".
C22_AliasesAgree ==
  (Validated /\ v_diagram_type \in DOMAIN AliasOf)
    => v_verdict.is_valid =
         validate_mermaid(v_mermaid_code, AliasOf[v_diagram_type]).is_valid

\* A flowchart with a block, valid under "component" and under "flowchart".
C22_Witness ==
  /\ Validated
  /\ v_diagram_type = "component"
  /\ v_verdict.is_valid
  /\ OpensAt # {}
  /\ validate_mermaid(v_mermaid_code, "flowchart").is_valid


(***************************************************************************)
(* The hints of the advisor, checked on SpecAdvisor.                       *)
(***************************************************************************)

\* The advisor has been called on error_message and diagram_type.
Advised == pc = "done" /\ v_guidance # NoGuidance

\* The lower-cased message holds the word.
Mentions(word) == Find(Lower(error_message), word, 1) # 0

\* The categories of the advisor in their order: whether each one matches
\* the message, and the hints it gives.
CategoryMatches ==
  << Mentions("invalid") /\ Mentions("start"),
     Mentions("participant") \/ Mentions("actor"),
     Mentions("arrow") \/ Mentions("-->"),
     Mentions("flowchart") \/ Mentions("graph"),
     Mentions("subgraph") \/ Mentions("end"),
     Mentions("syntax"),
     Mentions("empty") >>

CategoryHints ==
  << << "* Fix the diagram declaration: Start with '" \o diagram_type
          \o "' (case-sensitive)",
        "* For flowcharts, use 'flowchart TD' or 'graph TD/LR/TB/BT'",
        "* For sequence diagrams, use 'sequenceDiagram'" >>,
     << "* Use correct participant syntax: 'participant A as \"Description\"'",
        "* Use correct actor syntax: 'actor A as \"Description\"'",
        "* Participant/actor names should be valid identifiers (no spaces)" >>,
     << "* Check arrow syntax: 'A->>B: message' for sequence diagrams",
        "* Check connection syntax: 'A-->B' for flowcharts",
        "* Ensure proper spacing around arrows" >>,
     << "* Start with 'flowchart TD' or 'graph LR/TD/TB/BT'",
        "* Use node syntax: 'A[Label]', 'B(Label)', 'C{Decision}'",
        "* Use connection syntax: 'A-->B', 'A-.->B', 'A==>B'" >>,
     << "* Every 'subgraph' must have a matching 'end'",
        "* Proper subgraph syntax: 'subgraph Title' followed by content and 'end'" >>,
     << "* Review " \o diagram_type \o " specific syntax rules",
        "* Check for typos in keywords and operators",
        "* Ensure proper line breaks and indentation" >>,
     << "* Add actual diagram content after the declaration",
        "* Remove empty lines that might be causing issues" >> >>

GenericHints ==
  << "* Verify " \o diagram_type \o " syntax is correct",
     "* Check for typos in keywords and identifiers",
     "* Ensure proper spacing and line breaks",
     "* Remove any invalid characters or formatting" >>

\* The categories that match the message.
Matching == { k \in DOMAIN CategoryMatches : CategoryMatches[k] }

RECURSIVE HintsFrom(_)
\* The hints of the matching categories from the k-th on, in order.
HintsFrom(k) ==
  IF k > Len(CategoryHints) THEN <<>>
  ELSE (IF k \in Matching THEN CategoryHints[k] ELSE <<>>) \o HintsFrom(k + 1)

\* C23: for every message and diagram type the advisor returns a list of
\* hints that is not empty: the generic four when no category matches the
\* message (the start category matching a message that holds "invalid" and
\* "start"), and otherwise the hints of every matching category, the
\* categories in their fixed order.
C23_HintsByCategory ==
  Advised
    => /\ v_guidance.kind = "returned"
       /\ v_guidance.hints # <<>>
       /\ v_guidance.hints = IF Matching = {} THEN GenericHints ELSE HintsFrom(1)

\* A message of three categories, one of them found by a word in upper
\* case, with the seven hints of the three.
C23_Witness ==
  /\ Advised
  /\ Matching = {3, 5, 7}
  /\ Mentions("end")
  /\ Len(v_guidance.hints) = 7
  /\ v_guidance.hints[1] = CategoryHints[3][1]
  /\ v_guidance.hints[4] = CategoryHints[5][1]
  /\ v_guidance.hints[6] = CategoryHints[7][1]


(***************************************************************************)
(* The enhancement of the prompt, checked on Spec.                         *)
(***************************************************************************)

\* C24: a failure of the enhancement is not surfaced.  A send_message whose
\* enhancement raises takes the very step of one whose enhancement adds
\* nothing: edit_diagram is awaited with the instruction as it was given
\* and no response is made; and query (no db session) and start_chat (no
\* user identifier) await generate with the prompt as it was given.
C24_EnhancementFailureHidden ==
  [][ \A t \in DiagramTypes :
        /\ send_message(t, "raises")
             => /\ send_message(t, "nothing")
                /\ (db.session /\ t \in DOMAIN get_session_diagrams(db))
                     => /\ pc' = "edit_diagram"
                        /\ original_prompt' = BasePrompt
                        /\ response' = NoResponse
        /\ (query(t) \/ start_chat(t))
             => /\ pc' = "generate"
                /\ original_prompt' = BasePrompt ]_vars

\* An edit flow that went to the oracle with the instruction as given and
\* ended with a corrected diagram stored.
C24_Witness ==
  /\ endpoint = "send_message"
  /\ pc = "done"
  /\ original_prompt = BasePrompt
  /\ draft.kind = "content"
  /\ outcome.kind = "returned"
  /\ outcome.was_corrected
  /\ response.status_code = 200


(***************************************************************************)
(* An empty answer of the oracle to the draft call, checked on Spec.       *)
(***************************************************************************)

\* The draft call came back with a content that is empty once scrubbed.
EmptyDraft ==
  /\ client
  /\ draft.kind = "content"
  /\ Scrub(draft.content) = ""

\* C25: an empty answer to the draft call is an oracle fault and no text to
\* correct: it is not given to the validator, no correction call is made
\* for it, and its flow does not end with the 422 of exhaustion.
C25_EmptyDraftIsFault ==
  EmptyDraft
    => /\ validations = 0
       /\ llm_calls = <<>>
       /\ ~RaisedStatus(422)


(***************************************************************************)
(* A correction call that raises, checked on SpecCorrector.                *)
(***************************************************************************)

\* The correction calls that raised.
RaisedAt == { k \in DOMAIN llm_results : llm_results[k].kind = "raised" }

\* C26: a correction call that raises, the 504 of the timeout included,
\* uses up its attempt and changes neither the text nor the reason the loop
\* holds: before the last attempt the next call is made with the same text
\* and the same reason, and at the last attempt the run ends with the 422
\* that carries that reason.
C26_RaisedAttemptConsumed ==
  /\ Len(llm_calls) <= max_retries
  /\ \A k \in RaisedAt :
       /\ IF k < max_retries
          THEN /\ Len(llm_calls) >= k + 1
               /\ llm_calls[k + 1] = llm_calls[k]
          ELSE /\ RaisedStatus(422)
               /\ outcome.detail =
                    "Failed to generate valid Mermaid diagram after 3 attempts. Last error: "
                      \o llm_calls[k].error_message
               /\ current_mermaid = llm_calls[k].invalid_mermaid
               /\ error_message = llm_calls[k].error_message

\* A run whose first call timed out, whose second gave a rejected text and
\* whose third raised: it ends with the 422 of the second call's reason.
C26_Witness ==
  /\ RaisedStatus(422)
  /\ endpoint = "validate_and_correct"
  /\ IsTimeout(1)
  /\ IsInvalidOutput(2)
  /\ llm_results[3].kind = "raised"
  /\ llm_calls[2] = llm_calls[1]
  /\ llm_calls[3].error_message # llm_calls[2].error_message


(***************************************************************************)
(* The edits of a message request, checked on SpecSession.                 *)
(***************************************************************************)

\* A message request to an existing session has been answered.
MessageAnswered ==
  /\ endpoint = "send_message"
  /\ g_response # NoResponse
  /\ db.session

\* The edit of target i ends in this step by raising.
EditRaises(i) ==
  /\ endpoint = "send_message"
  /\ i \in DOMAIN tasks
  /\ tasks[i].pc # "done"
  /\ tasks'[i].pc = "done"
  /\ tasks'[i].outcome.kind = "raised"

\* The last task of the request for diagram type t.
LastTaskOf(t) == Max({ i \in DOMAIN tasks : tasks[i].diagram_type = t })

EditReturns(i) ==
  /\ endpoint = "send_message"
  /\ i \in DOMAIN tasks
  /\ tasks[i].pc # "done"
  /\ tasks'[i].pc = "done"
  /\ tasks'[i].outcome.kind = "returned"

\* The version stored for a diagram type that has exactly one row.
VersionOf(d, t) == d.diagrams[Min(RowsOfType(d, t))].version

\* C28: a diagram type of the session has at most one row; the row is at
\* version 1 in the step that first stores it; in every later step its
\* version is one more when update_diagram is called for the type and the
\* same otherwise, so it is never below 1 and never decreases.
C28_VersionCountsUpdates ==
  [][ \A t \in DiagramTypes :
        /\ Cardinality(RowsOfType(db', t)) <= 1
        /\ RowsOfType(db, t) # {} => RowsOfType(db', t) # {}
        /\ RowsOfType(db', t) # {} =>
             /\ VersionOf(db', t) >= 1
             /\ IF RowsOfType(db, t) = {}
                THEN VersionOf(db', t) = 1
                ELSE VersionOf(db', t) =
                       VersionOf(db, t)
                         + (IF \E i \in 1 .. 2 :
                                 EditReturns(i) /\ tasks[i].diagram_type = t
                            THEN 1 ELSE 0) ]_vars

\* A session in which one diagram has been updated twice and is at version
\* 3 while another diagram has never been updated and is at version 1.
C28_Witness ==
  /\ db.session
  /\ \E t, u \in DiagramTypes :
       /\ RowsOfType(db, t) # {} /\ VersionOf(db, t) = 3
       /\ RowsOfType(db, u) # {} /\ VersionOf(db, u) = 1


(***************************************************************************)
(* The response of the fan-out of /query, checked on SpecGather.           *)
(***************************************************************************)

\* Some flow of the request has raised.
SomeFlowRaised == \E i \in DOMAIN tasks : tasks[i].outcome.kind = "raised"

\* Every flow of the request has returned.
EveryFlowReturned == \A i \in DOMAIN tasks : tasks[i].outcome.kind = "returned"

\* C29: the request is answered 200 exactly when every flow has returned,
\* and the answer then has one entry per requested type, holding the output
\* of the flow of that type (of the later one when the type is requested
\* twice); once a flow has raised the request is answered with an error
\* that carries no diagrams, whatever the other flows return; until then
\* there is no answer.
C29_AllOrNothing ==
  /\ EveryFlowReturned
       <=> (g_response # NoResponse /\ g_response.status_code = 200)
  /\ EveryFlowReturned
       => /\ DOMAIN g_response.diagrams
               = { tasks[i].diagram_type : i \in DOMAIN tasks }
          /\ \A i \in DOMAIN tasks :
               (\A j \in DOMAIN tasks :
                  tasks[j].diagram_type = tasks[i].diagram_type => j <= i)
                 => g_response.diagrams[tasks[i].diagram_type]
                      = tasks[i].outcome.text
  /\ SomeFlowRaised
       <=> (g_response # NoResponse /\ g_response.status_code # 200)
  /\ SomeFlowRaised => "diagrams" \notin DOMAIN g_response

\* The first flow has returned its diagram and the second has raised: the
\* request has failed and the diagram of the first flow is in no answer.
C29_Witness ==
  /\ Len(tasks) = 2
  /\ tasks[1].diagram_type # tasks[2].diagram_type
  /\ tasks[1].outcome.kind = "returned"
  /\ tasks[2].outcome.kind = "raised"
  /\ g_response.status_code \in {422, 504}
  /\ DOMAIN g_response = {"status_code"}


(***************************************************************************)
(* What start_chat stores, checked on SpecSession.                         *)
(***************************************************************************)

\* start_chat has been received and no message request has followed.
Starting == endpoint = "start_chat"

\* C30: before start_chat and while its flows run nothing is stored; when a
\* flow has raised nothing is stored, whatever the other flows return; when
\* every flow has returned there is one session with its system message and,
\* for each requested type, one row at version 1 that holds the output of
\* the flow of that type, and no other row.
C30_SessionOnlyWhenAllGenerated ==
  /\ endpoint = "none" => db = EmptyDb
  /\ (Starting /\ ~EveryFlowReturned) => db = EmptyDb
  /\ (Starting /\ EveryFlowReturned)
       => /\ db.session
          /\ db.messages = <<"system">>
          /\ Len(db.diagrams)
               = Cardinality({ tasks[i].diagram_type : i \in DOMAIN tasks })
          /\ \A i \in DOMAIN tasks :
               LET t == tasks[i].diagram_type
               IN  /\ Cardinality(RowsOfType(db, t)) = 1
                   /\ VersionOf(db, t) = 1
                   /\ i = LastTaskOf(t)
                        => db.diagrams[Min(RowsOfType(db, t))].current_mermaid
                             = tasks[i].outcome.text

\* The first flow of start_chat has returned after a correction and the
\* second has ended with the 422 of exhaustion: nothing is stored.
C30_Witness ==
  /\ Starting
  /\ Len(tasks) = 2
  /\ tasks[1].outcome.kind = "returned"
  /\ tasks[1].outcome.was_corrected
  /\ tasks[2].outcome.kind = "raised"
  /\ tasks[2].outcome.status_code = 422
  /\ g_response.status_code = 422
  /\ db = EmptyDb

=============================================================================
